---- MODULE Spec2Model ----
(***************************************************************************)
(* The signaling and room broker of server/socket/handler.js: the room     *)
(* roster (roomParticipants), the broadcast registry, the chat rate        *)
(* limiter and the socket.io rooms that every emit of the handlers is      *)
(* addressed through.                                                      *)
(*                                                                         *)
(* Strings are modelled by integers.  Socket ids and room ids are strings  *)
(* of one namespace (socket.io puts every socket into a room named by its  *)
(* own id), so the socket ids 1..MaxSockets are also room names.           *)
(***************************************************************************)
EXTENDS Integers, Sequences, FiniteSets, TLC

VARIABLES
    status,             \* socket -> "idle" | "connected" | "closed"
    dataRoomId,         \* socket.data.roomId
    dataBroadcastId,    \* socket.data.broadcastId
    roomParticipants,   \* Map roomId -> Map socketId -> participant info
    broadcastRegistry,  \* Map broadcastId -> socketId
    chatLimiter,        \* Map socketId -> { count, resetAt }
    sids,               \* socket.io adapter: socket -> set of rooms it is in
    now,                \* Date.now()
    out,                \* the emits of the last handler run, in order
    accepted,           \* socket -> times of the chat messages accepted
    lastChat,           \* socket -> time of its last chat-message event
    dataUserId,         \* socket.data.userId
    roomDb,             \* the Room collection: roomId -> { creator, waitingRoom }
    dbOps,              \* the Room.updateOne calls of the last handler run
    pending,            \* the waiting-room calls that await the database
    trace,              \* what was written to each connection, when kept
    dataAuthenticated,  \* socket.data.authenticated
    dataUsername,       \* socket.data.username
    gen,                \* the call of generateRoomId that is running, if any
    legacy,             \* the 1:1 signaling server of server.js
    hook                \* a component that uses the client hook usePeerCall

vars == <<status, dataRoomId, dataBroadcastId, roomParticipants,
          broadcastRegistry, chatLimiter, sids, now, out, accepted, lastChat,
          dataUserId, roomDb, dbOps, pending, trace,
          dataAuthenticated, dataUsername, gen, legacy, hook>>

\* The variables of the socket server.
server == <<status, dataRoomId, dataBroadcastId, roomParticipants,
            broadcastRegistry, chatLimiter, sids, now, out, accepted, lastChat,
            dataUserId, roomDb, dbOps, pending, trace,
            dataAuthenticated, dataUsername>>

(***************************************************************************)
(* Bounds of the model.                                                    *)
(***************************************************************************)
MaxSockets == 2
MaxRooms == 1
MaxBids == 2
MaxChats == 1
MaxTicks == 3
MaxFlags == 1
MaxUsers == 2
MaxPending == 1
MaxSent == 2
MaxLen == 3
MaxDraws == 2
MaxCalls == 2
MaxPcs == 2

Sockets == 1..MaxSockets
\* Room names: every socket id, and MaxRooms further strings.
Names == 1..(MaxSockets + MaxRooms)
Bids == 1..MaxBids
\* User ids, as the token of an authenticated handshake carries them.
Users == 1..MaxUsers
\* The ids of Room documents: 8 characters, so none is a socket id.
DbRoomIds == Names \ Sockets

(***************************************************************************)
(* Maps (JavaScript Map) as functions with a finite domain.                *)
(***************************************************************************)
Has(m, k) == k \in DOMAIN m
MapSet(m, k, v) == [x \in (DOMAIN m) \cup {k} |-> IF x = k THEN v ELSE m[x]]
MapDelete(m, k) == [x \in (DOMAIN m) \ {k} |-> m[x]]
EmptyMap == <<>>

(***************************************************************************)
(* Values a client can put into an event.                                  *)
(***************************************************************************)
Null == 0          \* undefined or null
EmptyStr == -1     \* ""
LongStr == -2      \* a string of 129 characters
Blank == -3        \* a string of white space only
HugeStr == -4      \* a string of 1001 characters
NotString == -5    \* a truthy value that is no string, such as 42
Thumb == -6        \* an emoji of 2 characters
LongEmoji == -7    \* a string of 11 characters

IsString(x) == x \notin {Null, NotString}
\* A test for undefined and null only, which lets "" pass.
DefinedOnly(x) == x # Null

Truthy(x) == x \notin {Null, EmptyStr}
StrLen(x) ==
    CASE x = EmptyStr -> 0
      [] x = LongStr -> 129
      [] x = HugeStr -> 1001
      [] x = Blank -> 3
      [] x = Thumb -> 2
      [] x = LongEmoji -> 11
      [] OTHER -> 20
\* message.trim().length
TrimLen(x) == IF x = Blank THEN 0 ELSE StrLen(x)

RoomIdInputs == Names \cup {Null, EmptyStr, LongStr, NotString}
BidInputs == Bids \cup {Null, EmptyStr, LongStr, NotString}
ToInputs == Names \cup {Null}
\* A flag as a client sends it: a boolean, or a value of another type.
FlagInputs == {"true", "false", "other"}
IsBoolean(x) == x \in {"true", "false"}
UserIdInputs == Users \cup {Null}
EmojiInputs == {Thumb, Null, EmptyStr, LongEmoji, NotString}
\* The id of a chat message.
Msg == 1
MessageIdInputs == {Msg, Null}
Text == 1
MessageInputs == {Text, Null, EmptyStr, Blank, HugeStr, NotString}

\* Signaling payloads: two small objects, one that serializes to more than
\* MAX_PAYLOAD_SIZE characters, one that serializes to exactly that many, one
\* that JSON.stringify throws on, and the falsy value "".
SmallA == 1
SmallB == 2
HugePayload == 3
EdgePayload == 4
Unserializable == 5
PayloadInputs ==
    {Null, EmptyStr, SmallA, SmallB, HugePayload, EdgePayload, Unserializable}

CHAT_RATE_LIMIT == 10
CHAT_RATE_WINDOW == 10000
MAX_PAYLOAD_SIZE == 65536

\* JSON.stringify(data) throws.
JsonThrows(data) == data = Unserializable

\* JSON.stringify(data).length
JsonLength(data) ==
    CASE data = HugePayload -> MAX_PAYLOAD_SIZE + 1
      [] data = EdgePayload -> MAX_PAYLOAD_SIZE
      [] data = EmptyStr -> 2
      [] OTHER -> 20 * data

\* isValidPayload with < in place of <=.
isValidPayloadBelow(data) ==
    data # Null /\ ~JsonThrows(data) /\ JsonLength(data) < MAX_PAYLOAD_SIZE

isValidPayload(data) ==
    data # Null /\ ~JsonThrows(data) /\ JsonLength(data) <= MAX_PAYLOAD_SIZE

\* checkChatRate that counts and never refuses.
checkChatRateCountsOnly(lim, socketId, t) ==
    LET fresh == ~Has(lim, socketId) \/ t > lim[socketId].resetAt
        entry == IF fresh THEN [count |-> 0, resetAt |-> t + CHAT_RATE_WINDOW]
                 ELSE lim[socketId]
        counted == [entry EXCEPT !.count = @ + 1]
    IN  [ok |-> TRUE,
         lim |-> [x \in (DOMAIN lim) \cup {socketId} |->
                    IF x = socketId THEN counted ELSE lim[x]]]

\* checkChatRate(socketId) at time t: the verdict and the limiter afterwards.
checkChatRate(lim, socketId, t) ==
    LET fresh == ~Has(lim, socketId) \/ t > lim[socketId].resetAt
        entry == IF fresh THEN [count |-> 0, resetAt |-> t + CHAT_RATE_WINDOW]
                 ELSE lim[socketId]
        counted == [entry EXCEPT !.count = @ + 1]
    IN  [ok |-> counted.count <= CHAT_RATE_LIMIT,
         lim |-> [x \in (DOMAIN lim) \cup {socketId} |->
                    IF x = socketId THEN counted ELSE lim[x]]]

TickMs == CHAT_RATE_WINDOW \div 2

\* No chat-message event yet.
Never == -1

(***************************************************************************)
(* socket.io rooms.                                                        *)
(***************************************************************************)
\* The sockets in room `room'.
RoomSids(sd, room) == {x \in Sockets : room \in sd[x]}

\* io.to(room).emit(...): every socket in the room.
IoTo(sd, room) == RoomSids(sd, room)

\* socket.to(room).emit(...): every socket in the room except those in the
\* room named by the sender's id.
SocketTo(sd, s, room) == RoomSids(sd, room) \ RoomSids(sd, s)

Emit(ev, sid, data, list, msg, to) ==
    [ev |-> ev, sid |-> sid, data |-> data, list |-> list, msg |-> msg, to |-> to]

ErrorMessage(s, msg) == Emit("error-message", Null, Null, EmptyMap, msg, {s})

(***************************************************************************)
(* The Room collection.                                                    *)
(***************************************************************************)
\* Room.updateOne({ roomId, "chatMessages.messageId": messageId },
\*                { $addToSet: { [`chatMessages.$.reactions.${emoji}`]: userId } })
AddReaction(roomId, messageId, emoji, userId) ==
    [op |-> "addToSet", roomId |-> roomId, messageId |-> messageId, data |-> emoji,
     userId |-> userId, settled |-> "no"]

\* Room.updateOne({ roomId }, { $push: { chatMessages: chatMsg } })
PushChat(roomId, message) ==
    [op |-> "push", roomId |-> roomId, messageId |-> Null, data |-> message, userId |-> Null,
     settled |-> "no"]

(***************************************************************************)
(* Room runtime.                                                           *)
(***************************************************************************)
DefaultInfo ==
    [muted |-> FALSE, videoOff |-> FALSE, handRaised |-> FALSE, screenSharing |-> FALSE]

\* getParticipantList that reports every flag as false.
getParticipantListNoFlags(rp, roomId) ==
    IF Has(rp, roomId) THEN [c \in DOMAIN rp[roomId] |-> DefaultInfo] ELSE EmptyMap

getParticipantList(rp, roomId) == IF Has(rp, roomId) THEN rp[roomId] ELSE EmptyMap

\* leaveRoom without participants.delete(socket.id).
leaveRoomKeepsEntry(s, rid, rp, sd) ==
    IF rid = Null
    THEN [rid |-> rid, rp |-> rp, sd |-> sd, emits |-> <<>>]
    ELSE [rid |-> Null,
          rp |-> rp,
          sd |-> [sd EXCEPT ![s] = @ \ {rid}],
          emits |-> IF Has(rp, rid)
                    THEN <<Emit("user-left", s, Null, EmptyMap, "", SocketTo(sd, s, rid))>>
                    ELSE <<>>]

\* leaveRoom without socket.data.roomId = null.
leaveRoomKeepsRoomId(s, rid, rp, sd) ==
    IF rid = Null
    THEN [rid |-> rid, rp |-> rp, sd |-> sd, emits |-> <<>>]
    ELSE LET had == Has(rp, rid)
             participants == IF had THEN MapDelete(rp[rid], s) ELSE EmptyMap
             rp1 == IF ~had THEN rp
                    ELSE IF DOMAIN participants = {} THEN MapDelete(rp, rid)
                    ELSE MapSet(rp, rid, participants)
         IN  [rid |-> rid,
              rp |-> rp1,
              sd |-> [sd EXCEPT ![s] = @ \ {rid}],
              emits |-> IF had
                        THEN <<Emit("user-left", s, Null, EmptyMap, "", SocketTo(sd, s, rid))>>
                        ELSE <<>>]

\* leaveRoom without roomParticipants.delete(roomId) for an empty room.
leaveRoomKeepsEmptyRoom(s, rid, rp, sd) ==
    IF rid = Null
    THEN [rid |-> rid, rp |-> rp, sd |-> sd, emits |-> <<>>]
    ELSE LET had == Has(rp, rid)
             rp1 == IF ~had THEN rp ELSE MapSet(rp, rid, MapDelete(rp[rid], s))
         IN  [rid |-> Null,
              rp |-> rp1,
              sd |-> [sd EXCEPT ![s] = @ \ {rid}],
              emits |-> IF had
                        THEN <<Emit("user-left", s, Null, EmptyMap, "", SocketTo(sd, s, rid))>>
                        ELSE <<>>]

\* leaveRoom(io, socket): the roster, the rooms, socket.data.roomId and the
\* emits after the call, from the values before it.
leaveRoom(s, rid, rp, sd) ==
    IF rid = Null
    THEN [rid |-> rid, rp |-> rp, sd |-> sd, emits |-> <<>>]
    ELSE LET had == Has(rp, rid)
             participants == IF had THEN MapDelete(rp[rid], s) ELSE EmptyMap
             rp1 == IF ~had THEN rp
                    ELSE IF DOMAIN participants = {} THEN MapDelete(rp, rid)
                    ELSE MapSet(rp, rid, participants)
         IN  [rid |-> Null,
              rp |-> rp1,
              sd |-> [sd EXCEPT ![s] = @ \ {rid}],
              emits |-> IF had
                        THEN <<Emit("user-left", s, Null, EmptyMap, "", SocketTo(sd, s, rid))>>
                        ELSE <<>>]

(***************************************************************************)
(* The client's roster: the room-participants snapshot, then user-joined   *)
(* and user-left applied in delivery order.                                *)
(***************************************************************************)
ApplyEmit(v, p, e) ==
    IF p \notin e.to THEN v
    ELSE IF e.ev = "room-participants" THEN DOMAIN e.list
    ELSE IF e.ev = "user-joined" THEN v \cup {e.sid}
    ELSE IF e.ev = "user-left" THEN v \ {e.sid}
    ELSE v

RECURSIVE ApplyEmits(_, _, _)
ApplyEmits(v, p, es) ==
    IF es = <<>> THEN v ELSE ApplyEmits(ApplyEmit(v, p, Head(es)), p, Tail(es))

\* How many emits of es deliver user-left naming c to p.
RECURSIVE LeftCount(_, _, _)
LeftCount(c, p, es) ==
    IF es = <<>> THEN 0
    ELSE (IF Head(es).ev = "user-left" /\ Head(es).sid = c /\ p \in Head(es).to THEN 1 ELSE 0)
         + LeftCount(c, p, Tail(es))

\* What a client can send as a name: socket.io draws a socket's id at random
\* when it connects, so no event names the id of a socket yet to connect.
Sendable(x) == x \in Sockets => status[x] # "idle"

\* No record is kept of what is written to the connections.
NoTrace ==
    [on |-> FALSE, seq |-> [s \in Sockets |-> 0], inbox |-> [r \in Sockets |-> <<>>]]

\* The events whose order of delivery the relay keeps per pair of connections.
Ordered == {"offer", "answer", "ice-candidate", "chat-message"}

\* A connection that gets the newest message ahead of those written before.
deliverFirst(box, msg) == <<msg>> \o box

\* emit writes the message to the receiver's connection, behind the messages
\* written before; the connection delivers them in that order.
deliver(box, msg) == Append(box, msg)

\* The record after a handler run of s with the emits es: an envelope or chat
\* message that was accepted gets the next number of its sender and is
\* written to each of its receivers.
Traced(tr, s, es) ==
    IF ~tr.on \/ es = <<>> THEN tr
    ELSE IF es[1].ev \notin Ordered THEN tr
    ELSE LET n == tr.seq[s] + 1
             msg == [from |-> s, n |-> n, ev |-> es[1].ev, data |-> es[1].data]
         IN  [on |-> TRUE,
              seq |-> [tr.seq EXCEPT ![s] = n],
              inbox |-> [r \in Sockets |->
                           IF r \in es[1].to THEN deliver(tr.inbox[r], msg)
                           ELSE tr.inbox[r]]]

(***************************************************************************)
(* The handshake.  A token is what socket.handshake.auth.token holds: a    *)
(* JWT that carries a user id, and is signed with JWT_SECRET and not       *)
(* expired, or not; a string that is no JWT; a value that is no string;    *)
(* "" ; nothing.                                                           *)
(***************************************************************************)
NoToken == [kind |-> "none", id |-> Null]
ValidToken(u) == [kind |-> "valid", id |-> u]
TokenInputs ==
    {NoToken} \cup
    [kind : {"valid", "expired", "wrongly signed"}, id : Users] \cup
    [kind : {"empty", "malformed", "no string"}, id : {Null}]

\* The username of a socket that has none yet.
NoName == [prefix |-> "", len |-> 0, alphabet |-> ""]

\* The username of an authenticated connection: user.username or User_<id>.
UserName == [prefix |-> "User", len |-> 0, alphabet |-> ""]

\* crypto.randomBytes(length).toString("hex").slice(0, length): the hex
\* string has 2 * length characters, of which the first length are kept.
generateShortId(length) ==
    [prefix |-> "", len |-> IF 2 * length < length THEN 2 * length ELSE length,
     alphabet |-> "hex"]

GuestName == [generateShortId(6) EXCEPT !.prefix = "Guest_"]

\* The middleware with jwt.decode in place of jwt.verify: the signature and
\* the expiry of the token are not tested.
authMiddlewareUnverified(token) ==
    IF token.kind \in {"valid", "expired", "wrongly signed"}
    THEN [userId |-> token.id, authenticated |-> TRUE, username |-> NoName]
    ELSE [userId |-> Null, authenticated |-> FALSE, username |-> GuestName]

\* io.use(...): socket.data after the middleware, which always calls next()
\* without an error.
authMiddleware(token) ==
    IF token.kind = "valid"
    THEN [userId |-> token.id, authenticated |-> TRUE, username |-> NoName]
    ELSE [userId |-> Null, authenticated |-> FALSE, username |-> GuestName]

(***************************************************************************)
(* The id generator.  A string is the sequence of its character codes.     *)
(***************************************************************************)
ALPHABET_LEN == 62

Undefined == 0

\* ALPHANUMERIC[k]: "A".."Z", "a".."z", "0".."9", and undefined past the end.
ALPHANUMERIC(k) ==
    IF k \in 0..25 THEN 65 + k
    ELSE IF k \in 26..51 THEN 97 + (k - 26)
    ELSE IF k \in 52..61 THEN 48 + (k - 52)
    ELSE Undefined

\* What += appends for a value: the character, or the text "undefined".
ToStr(c) ==
    IF c = Undefined THEN <<117, 110, 100, 101, 102, 105, 110, 101, 100>>
    ELSE <<c>>

\* The threshold with the remainder added instead of subtracted: no byte
\* is discarded.
maxValidAdded == 256 + (256 % ALPHABET_LEN)

maxValid == 256 - (256 % ALPHABET_LEN)

\* The values of a byte.
Bytes == 0..255

\* The bytes the byte source is taken to deliver: the ends of the alphabet,
\* a wrap-around, the last byte kept and the first and last bytes discarded.
ByteInputs == {0, 61, 62, 100, 247, 248, 255}

\* crypto.randomBytes(size): any size bytes.
randomBytes(size) == [1..size -> ByteInputs]

\* The character without the reduction modulo the length of the alphabet.
EncodeRaw(byte) == ToStr(ALPHANUMERIC(byte))

\* ALPHANUMERIC[bytes[i] % ALPHABET_LEN], as a string.
Encode(byte) == ToStr(ALPHANUMERIC(byte % ALPHABET_LEN))

\* for (let i = 0; i < bytes.length && result.length < length; i++) ...,
\* with i counted from 1.
RECURSIVE forLoop(_, _, _, _)
forLoop(bytes, i, result, length) ==
    IF i <= Len(bytes) /\ Len(result) < length
    THEN forLoop(bytes, i + 1,
                 IF bytes[i] < maxValid THEN result \o Encode(bytes[i]) ELSE result,
                 length)
    ELSE result

\* No call of generateRoomId is running.
NoCall == [pc |-> "none", length |-> 0, result |-> <<>>, draws |-> 0, bytes |-> <<>>]

(***************************************************************************)
(* The 1:1 signaling server of server.js: its sockets, their socket.io     *)
(* rooms and socket.data, the map rooms, and the emits of the last handler *)
(* run.                                                                    *)
(***************************************************************************)
\* No role: socket.data.role = null, or an event without a role.
NoRole == ""
RoleInputs == {"broadcaster", "viewer", "host", NoRole}
\* A PeerJS id.
PeerA == 1
PeerIdInputs == {Null, PeerA}

\* A room without a broadcaster and without a viewer: {}.
NoPeers == [broadcaster |-> Null, viewer |-> Null]

InitLegacy ==
    [status |-> [s \in Sockets |-> "idle"],
     sids |-> [s \in Sockets |-> {}],
     roomId |-> [s \in Sockets |-> Null],
     role |-> [s \in Sockets |-> NoRole],
     peerId |-> [s \in Sockets |-> Null],
     rooms |-> EmptyMap,
     out |-> <<>>]

\* getPeerId(socket)
getPeerId(L, s) ==
    LET roomId == L.roomId[s]
    IN  IF ~Truthy(roomId) THEN Null
        ELSE IF ~Has(L.rooms, roomId) THEN Null
        ELSE IF L.role[s] = "broadcaster" THEN L.rooms[roomId].viewer
        ELSE L.rooms[roomId].broadcaster

\* leaveRoom(socket) of server.js: the server after the call.
legacyLeaveRoom(L, s) ==
    LET roomId == L.roomId[s]
    IN  IF ~Truthy(roomId) THEN L
        ELSE IF ~Has(L.rooms, roomId) THEN L
        ELSE LET role == L.role[s]
                 otherPeerId == getPeerId(L, s)
                 room == L.rooms[roomId]
                 room1 == IF role = "broadcaster" THEN [room EXCEPT !.broadcaster = Null]
                          ELSE IF role = "viewer" THEN [room EXCEPT !.viewer = Null]
                          ELSE room
                 rooms1 == IF room1 = NoPeers THEN MapDelete(L.rooms, roomId)
                           ELSE MapSet(L.rooms, roomId, room1)
                 emits == IF otherPeerId # Null
                          THEN <<Emit("peer-disconnected", s, role, EmptyMap, "",
                                      IoTo(L.sids, otherPeerId))>>
                          ELSE <<>>
             IN  [L EXCEPT !.rooms = rooms1,
                           !.out = @ \o emits,
                           !.sids[s] = @ \ {roomId},
                           !.roomId[s] = Null,
                           !.role[s] = NoRole,
                           !.peerId[s] = Null]

\* What the handler does when the role is taken: the error, and the socket
\* out of the room again.
Refused(L, s, roomId, msg) ==
    [L EXCEPT !.out = @ \o <<ErrorMessage(s, msg)>>,
              !.sids[s] = @ \ {roomId},
              !.roomId[s] = Null,
              !.role[s] = NoRole,
              !.peerId[s] = Null]

\* The join-room handler without the tests for a role that is taken.
legacyJoinRoomUnchecked(L0, s, roomId, role, peerId) ==
    LET L == [L0 EXCEPT !.out = <<>>]
    IN  IF ~Truthy(roomId) \/ role = NoRole
        THEN [L EXCEPT !.out = <<ErrorMessage(s, "roomId and role are required")>>]
        ELSE IF ~IsString(roomId) \/ StrLen(roomId) > 128
        THEN [L EXCEPT !.out = <<ErrorMessage(s,
                           "roomId must be a string of 128 characters or fewer")>>]
        ELSE IF role \notin {"broadcaster", "viewer"}
        THEN [L EXCEPT !.out = <<ErrorMessage(s, "role must be 'broadcaster' or 'viewer'")>>]
        ELSE LET L1 == IF Truthy(L.roomId[s]) THEN legacyLeaveRoom(L, s) ELSE L
                 room == IF Has(L1.rooms, roomId) THEN L1.rooms[roomId] ELSE NoPeers
                 L2 == [L1 EXCEPT !.sids[s] = @ \cup {roomId},
                                  !.roomId[s] = roomId,
                                  !.role[s] = role,
                                  !.peerId[s] = peerId]
             IN  IF role = "broadcaster"
                 THEN [L2 EXCEPT !.rooms = MapSet(L1.rooms, roomId,
                                                  [room EXCEPT !.broadcaster = s])]
                 ELSE [L2 EXCEPT !.rooms = MapSet(L1.rooms, roomId,
                                                  [room EXCEPT !.viewer = s])]

\* socket.on("join-room") of server.js: the server after the handler.
legacyJoinRoom(L0, s, roomId, role, peerId) ==
    LET L == [L0 EXCEPT !.out = <<>>]
    IN  IF ~Truthy(roomId) \/ role = NoRole
        THEN [L EXCEPT !.out = <<ErrorMessage(s, "roomId and role are required")>>]
        ELSE IF ~IsString(roomId) \/ StrLen(roomId) > 128
        THEN [L EXCEPT !.out = <<ErrorMessage(s,
                           "roomId must be a string of 128 characters or fewer")>>]
        ELSE IF role \notin {"broadcaster", "viewer"}
        THEN [L EXCEPT !.out = <<ErrorMessage(s, "role must be 'broadcaster' or 'viewer'")>>]
        ELSE LET L1 == IF Truthy(L.roomId[s]) THEN legacyLeaveRoom(L, s) ELSE L
                 room == IF Has(L1.rooms, roomId) THEN L1.rooms[roomId] ELSE NoPeers
                 L2 == [L1 EXCEPT !.sids[s] = @ \cup {roomId},
                                  !.roomId[s] = roomId,
                                  !.role[s] = role,
                                  !.peerId[s] = peerId,
                                  !.rooms = MapSet(L1.rooms, roomId, room)]
             IN  IF role = "broadcaster"
                 THEN IF room.broadcaster # Null
                      THEN Refused(L2, s, roomId, "Room already has a broadcaster")
                      ELSE LET viewerLive == /\ room.viewer # Null
                                             /\ L2.status[room.viewer] = "connected"
                           IN  [L2 EXCEPT
                                  !.rooms[roomId].broadcaster = s,
                                  !.out = @ \o
                                     IF viewerLive
                                     THEN <<Emit("viewer-joined", room.viewer,
                                                 L2.peerId[room.viewer], EmptyMap, "", {s}),
                                            Emit("broadcaster-ready", s, peerId,
                                                 EmptyMap, "", {room.viewer})>>
                                     ELSE <<>>]
                 ELSE IF room.viewer # Null
                      THEN Refused(L2, s, roomId, "Room already has a viewer")
                      ELSE LET broadcasterLive == /\ room.broadcaster # Null
                                                  /\ L2.status[room.broadcaster] = "connected"
                           IN  [L2 EXCEPT
                                  !.rooms[roomId].viewer = s,
                                  !.out = @ \o
                                     IF broadcasterLive
                                     THEN <<Emit("viewer-joined", s, peerId,
                                                 EmptyMap, "", {room.broadcaster}),
                                            Emit("broadcaster-ready", room.broadcaster,
                                                 L2.peerId[room.broadcaster],
                                                 EmptyMap, "", {s})>>
                                     ELSE <<>>]

(***************************************************************************)
(* The client hook usePeerCall: status, pcRef, socketRef, the sockets it   *)
(* has made (each with the handlers of the call that made it, until        *)
(* removeAllListeners), the RTCPeerConnections it has made, the connect    *)
(* timers that are set, and the async functions that are suspended at an   *)
(* await.  quiet records that disconnect() was called and neither          *)
(* startCall nor joinCall since.                                           *)
(***************************************************************************)
InitHook ==
    [status |-> "idle", pcRef |-> Null, socketRef |-> Null,
     socks |-> <<>>, pcs |-> <<>>, timers |-> {}, tasks |-> {},
     calls |-> 0, quiet |-> FALSE]

\* pcRef.current?.close()
ClosePc(pcs, ref) == IF ref = Null THEN pcs ELSE [pcs EXCEPT ![ref] = "closed"]

\* disconnectSocket(socket): removeAllListeners() and disconnect().
disconnectSocket(socks, ref) ==
    IF ref = Null THEN socks
    ELSE [socks EXCEPT ![ref] = [@ EXCEPT !.listeners = FALSE, !.state = "closed"]]

\* "Clean up any previous connection" of startCall and joinCall.
CleanUp(h) ==
    [h EXCEPT !.pcs = ClosePc(h.pcs, h.pcRef),
              !.pcRef = Null,
              !.socks = disconnectSocket(h.socks, h.socketRef),
              !.socketRef = Null]

\* disconnect() of usePeerCall
disconnect(h) ==
    [CleanUp(h) EXCEPT !.status = "disconnected", !.quiet = TRUE]

\* The rest of startCall or joinCall once the camera stream is there: a
\* new socket with the handlers of the call, its connect timer, and
\* socket.connect().
OpenSocket(h, kind) ==
    LET k == Len(h.socks) + 1
    IN  [h EXCEPT !.socks = Append(@, [kind |-> kind, state |-> "connecting",
                                       listeners |-> TRUE]),
                  !.socketRef = k,
                  !.timers = @ \cup {k}]

\* The state of the server after setupSocket(io).
InitServer ==
    /\ status = [s \in Sockets |-> "idle"]
    /\ dataRoomId = [s \in Sockets |-> Null]
    /\ dataBroadcastId = [s \in Sockets |-> Null]
    /\ roomParticipants = EmptyMap
    /\ broadcastRegistry = EmptyMap
    /\ chatLimiter = EmptyMap
    /\ sids = [s \in Sockets |-> {}]
    /\ now = 0
    /\ out = <<>>
    /\ accepted = [s \in Sockets |-> <<>>]
    /\ lastChat = [s \in Sockets |-> Never]
    /\ dataUserId = [s \in Sockets |-> Null]
    /\ roomDb = EmptyMap
    /\ dbOps = <<>>
    /\ pending = {}
    /\ dataAuthenticated = [s \in Sockets |-> FALSE]
    /\ dataUsername = [s \in Sockets |-> NoName]
    /\ legacy = InitLegacy
    /\ hook = InitHook

Init == InitServer /\ trace = NoTrace /\ gen = NoCall

\* The same state, with the record of the connections kept.
InitOrder == InitServer /\ trace = [NoTrace EXCEPT !.on = TRUE] /\ gen = NoCall

\* The server at rest and generateRoomId(length) called: result = "".
InitIds ==
    /\ InitServer /\ trace = NoTrace
    /\ \E length \in 0..MaxLen :
           gen = [NoCall EXCEPT !.pc = "while", !.length = length]

\* The server at rest and generateRoomId(1) called.
InitByte == InitServer /\ trace = NoTrace /\ gen = [NoCall EXCEPT !.pc = "while", !.length = 1]

\* The handshake has passed the middleware with socket.data = data, and the
\* connection handler has run: the socket is in the room named by its own
\* id, and an authenticated connection has its username resolved.
Admit(s, data) ==
    /\ status' = [status EXCEPT ![s] = "connected"]
    /\ sids' = [sids EXCEPT ![s] = {s}]
    /\ dataUserId' = [dataUserId EXCEPT ![s] = data.userId]
    /\ dataAuthenticated' = [dataAuthenticated EXCEPT ![s] = data.authenticated]
    /\ dataUsername' = [dataUsername EXCEPT ![s] =
                           IF data.authenticated /\ Truthy(data.userId)
                           THEN UserName ELSE data.username]
    /\ UNCHANGED <<trace, gen, legacy, hook>>

\* io.on("connection") after a handshake without a token.
Connect(s) ==
    /\ status[s] = "idle"
    /\ Admit(s, authMiddleware(NoToken))
    /\ out' = <<>>
    /\ dbOps' = <<>>
    /\ UNCHANGED <<dataRoomId, dataBroadcastId, roomParticipants, broadcastRegistry,
                   chatLimiter, now, accepted, lastChat, roomDb, pending>>

\* io.on("connection") after a handshake with a valid token of user u.
ConnectAs(s, u) ==
    /\ status[s] = "idle"
    /\ Admit(s, authMiddleware(ValidToken(u)))
    /\ out' = <<>>
    /\ dbOps' = <<>>
    /\ UNCHANGED <<dataRoomId, dataBroadcastId, roomParticipants, broadcastRegistry,
                   chatLimiter, now, accepted, lastChat, roomDb, pending>>

\* A handshake with the token, and io.on("connection").
Handshake(s, token) ==
    /\ status[s] = "idle"
    /\ Admit(s, authMiddleware(token))
    /\ out' = <<>>
    /\ dbOps' = <<>>
    /\ UNCHANGED <<dataRoomId, dataBroadcastId, roomParticipants, broadcastRegistry,
                   chatLimiter, now, accepted, lastChat, roomDb, pending>>

\* socket.on("join-room")
JoinRoom(s, roomId) ==
    /\ UNCHANGED <<trace, dataAuthenticated, dataUsername, gen, legacy, hook>>
    /\ status[s] = "connected"
    /\ Sendable(roomId)
    /\ dbOps' = <<>>
    /\ UNCHANGED <<lastChat, dataUserId, roomDb, pending>>
    /\ IF ~Truthy(roomId) \/ ~IsString(roomId) \/ StrLen(roomId) > 128
       THEN /\ out' = <<ErrorMessage(s, "Valid roomId is required")>>
            /\ UNCHANGED <<status, dataRoomId, dataBroadcastId, roomParticipants,
                           broadcastRegistry, chatLimiter, sids, now, accepted>>
       ELSE LET left == leaveRoom(s, dataRoomId[s], roomParticipants, sids)
                sd1 == [left.sd EXCEPT ![s] = @ \cup {roomId}]
                old == IF Has(left.rp, roomId) THEN left.rp[roomId] ELSE EmptyMap
                rp1 == MapSet(left.rp, roomId, MapSet(old, s, DefaultInfo))
                es == left.emits \o
                      <<Emit("user-joined", s, Null, EmptyMap, "", SocketTo(sd1, s, roomId)),
                        Emit("room-participants", Null, Null,
                             getParticipantList(rp1, roomId), "", {s})>>
            IN  /\ sids' = sd1
                /\ dataRoomId' = [dataRoomId EXCEPT ![s] = roomId]
                /\ roomParticipants' = rp1
                /\ out' = es
                /\ UNCHANGED <<status, dataBroadcastId, broadcastRegistry, chatLimiter,
                               now, accepted>>

\* socket.on("leave-room")
LeaveRoom(s) ==
    /\ UNCHANGED <<trace, dataAuthenticated, dataUsername, gen, legacy, hook>>
    /\ status[s] = "connected"
    /\ LET left == leaveRoom(s, dataRoomId[s], roomParticipants, sids)
       IN  /\ sids' = left.sd
           /\ dataRoomId' = [dataRoomId EXCEPT ![s] = left.rid]
           /\ roomParticipants' = left.rp
           /\ out' = left.emits
    /\ dbOps' = <<>>
    /\ UNCHANGED <<status, dataBroadcastId, broadcastRegistry, chatLimiter, now, accepted,
                   lastChat, dataUserId, roomDb, pending>>

\* The disconnect handler without chatLimiter.delete(socket.id).
DisconnectKeepsLimiter(s) ==
    /\ UNCHANGED <<trace, dataAuthenticated, dataUsername, gen, legacy, hook>>
    /\ status[s] = "connected"
    /\ LET sd0 == [sids EXCEPT ![s] = {}]
           reg == IF dataBroadcastId[s] # Null
                  THEN MapDelete(broadcastRegistry, dataBroadcastId[s])
                  ELSE broadcastRegistry
           left == leaveRoom(s, dataRoomId[s], roomParticipants, sd0)
       IN  /\ status' = [status EXCEPT ![s] = "closed"]
           /\ sids' = left.sd
           /\ broadcastRegistry' = reg
           /\ dataRoomId' = [dataRoomId EXCEPT ![s] = left.rid]
           /\ roomParticipants' = left.rp
           /\ chatLimiter' = chatLimiter
           /\ out' = left.emits
           /\ accepted' = [accepted EXCEPT ![s] = <<>>]
           /\ lastChat' = [lastChat EXCEPT ![s] = Never]
    /\ dbOps' = <<>>
    /\ UNCHANGED <<dataBroadcastId, now, dataUserId, roomDb, pending>>

\* socket.on("disconnect"): socket.io has taken the socket out of all its
\* rooms before the handler runs.
Disconnect(s) ==
    /\ UNCHANGED <<trace, dataAuthenticated, dataUsername, gen, legacy, hook>>
    /\ status[s] = "connected"
    /\ LET sd0 == [sids EXCEPT ![s] = {}]
           reg == IF dataBroadcastId[s] # Null
                  THEN MapDelete(broadcastRegistry, dataBroadcastId[s])
                  ELSE broadcastRegistry
           left == leaveRoom(s, dataRoomId[s], roomParticipants, sd0)
       IN  /\ status' = [status EXCEPT ![s] = "closed"]
           /\ sids' = left.sd
           /\ broadcastRegistry' = reg
           /\ dataRoomId' = [dataRoomId EXCEPT ![s] = left.rid]
           /\ roomParticipants' = left.rp
           /\ chatLimiter' = MapDelete(chatLimiter, s)
           /\ out' = left.emits
           /\ accepted' = [accepted EXCEPT ![s] = <<>>]
           /\ lastChat' = [lastChat EXCEPT ![s] = Never]
    /\ dbOps' = <<>>
    /\ UNCHANGED <<dataBroadcastId, now, dataUserId, roomDb, pending>>

\* socket.on("create-broadcast")
CreateBroadcast(s, broadcastId) ==
    /\ UNCHANGED <<trace, dataAuthenticated, dataUsername, gen, legacy, hook>>
    /\ status[s] = "connected"
    /\ IF ~Truthy(broadcastId) \/ ~IsString(broadcastId) \/ StrLen(broadcastId) > 64
       THEN /\ out' = <<ErrorMessage(s, "Valid broadcastId is required")>>
            /\ UNCHANGED <<broadcastRegistry, dataBroadcastId>>
       ELSE /\ broadcastRegistry' = MapSet(broadcastRegistry, broadcastId, s)
            /\ dataBroadcastId' = [dataBroadcastId EXCEPT ![s] = broadcastId]
            /\ out' = <<Emit("broadcast-created", Null, broadcastId, EmptyMap, "", {s})>>
    /\ dbOps' = <<>>
    /\ UNCHANGED <<status, dataRoomId, roomParticipants, chatLimiter, sids, now, accepted,
                   lastChat, dataUserId, roomDb, pending>>

\* socket.on("join-broadcast")
JoinBroadcast(s, broadcastId) ==
    /\ UNCHANGED <<trace, dataAuthenticated, dataUsername, gen, legacy, hook>>
    /\ status[s] = "connected"
    /\ out' = IF ~Truthy(broadcastId) \/ ~IsString(broadcastId)
              THEN <<ErrorMessage(s, "Valid broadcastId is required")>>
              ELSE IF ~Has(broadcastRegistry, broadcastId)
              THEN <<Emit("broadcast-not-found", Null, broadcastId, EmptyMap, "", {s})>>
              ELSE LET broadcasterSocketId == broadcastRegistry[broadcastId]
                   IN  <<Emit("viewer-joined", s, Null, EmptyMap, "",
                              IoTo(sids, broadcasterSocketId)),
                         Emit("broadcast-joined", broadcasterSocketId, Null, EmptyMap, "", {s})>>
    /\ dbOps' = <<>>
    /\ UNCHANGED <<status, dataRoomId, dataBroadcastId, roomParticipants,
                   broadcastRegistry, chatLimiter, sids, now, accepted,
                   lastChat, dataUserId, roomDb, pending>>

\* The flags that are set, over all rooms.
FlagsSet ==
    {x \in Names \X Sockets \X {"muted", "videoOff", "handRaised", "screenSharing"} :
        /\ Has(roomParticipants, x[1]) /\ Has(roomParticipants[x[1]], x[2])
        /\ roomParticipants[x[1]][x[2]][x[3]]}

\* A presence handler without the typeof test of the flag.
PresenceUntyped(s, roomId, wellTyped, field, value, ev) ==
    /\ UNCHANGED <<trace, dataAuthenticated, dataUsername, gen, legacy, hook>>
    /\ Sendable(roomId)
    /\ value => Cardinality(FlagsSet) < MaxFlags
    /\ dbOps' = <<>>
    /\ UNCHANGED <<status, dataRoomId, dataBroadcastId, broadcastRegistry, chatLimiter,
                   sids, now, accepted, lastChat, dataUserId, roomDb, pending>>
    /\ IF Truthy(roomId)
          /\ Has(roomParticipants, roomId) /\ Has(roomParticipants[roomId], s)
       THEN /\ roomParticipants' = [roomParticipants EXCEPT ![roomId][s][field] = value]
            /\ out' = <<Emit(ev, s, IF value THEN 1 ELSE 0, EmptyMap, "",
                             SocketTo(sids, s, roomId))>>
       ELSE /\ roomParticipants' = roomParticipants
            /\ out' = <<>>

\* The body of a presence handler: participants.get(socket.id)[field] = value
\* and socket.to(roomId).emit(ev, ...), when the socket is in the roster of
\* roomId.  A flag is set only while fewer than MaxFlags are.
Presence(s, roomId, wellTyped, field, value, ev) ==
    /\ UNCHANGED <<trace, dataAuthenticated, dataUsername, gen, legacy, hook>>
    /\ Sendable(roomId)
    /\ value => Cardinality(FlagsSet) < MaxFlags
    /\ dbOps' = <<>>
    /\ UNCHANGED <<status, dataRoomId, dataBroadcastId, broadcastRegistry, chatLimiter,
                   sids, now, accepted, lastChat, dataUserId, roomDb, pending>>
    /\ IF Truthy(roomId) /\ wellTyped
          /\ Has(roomParticipants, roomId) /\ Has(roomParticipants[roomId], s)
       THEN /\ roomParticipants' = [roomParticipants EXCEPT ![roomId][s][field] = value]
            /\ out' = <<Emit(ev, s, IF value THEN 1 ELSE 0, EmptyMap, "",
                             SocketTo(sids, s, roomId))>>
       ELSE /\ roomParticipants' = roomParticipants
            /\ out' = <<>>

\* socket.on("toggle-mute")
ToggleMute(s, roomId, muted) ==
    /\ status[s] = "connected"
    /\ Presence(s, roomId, IsBoolean(muted), "muted", muted = "true", "user-toggle-mute")

\* socket.on("toggle-video")
ToggleVideo(s, roomId, videoOff) ==
    /\ status[s] = "connected"
    /\ Presence(s, roomId, IsBoolean(videoOff), "videoOff", videoOff = "true",
                "user-toggle-video")

\* socket.on("screen-share-start")
ScreenShareStart(s, roomId) ==
    /\ status[s] = "connected"
    /\ Presence(s, roomId, TRUE, "screenSharing", TRUE, "user-screen-share-start")

\* socket.on("screen-share-stop")
ScreenShareStop(s, roomId) ==
    /\ status[s] = "connected"
    /\ Presence(s, roomId, TRUE, "screenSharing", FALSE, "user-screen-share-stop")

\* socket.on("hand-raise")
HandRaise(s, roomId, raised) ==
    /\ status[s] = "connected"
    /\ Presence(s, roomId, IsBoolean(raised), "handRaised", raised = "true",
                "user-hand-raise")

\* What a signaling handler emits: io.to(to).emit(ev, { from: socket.id, payload }).
Relay(s, ev, to, payload) ==
    IF ~Truthy(to) \/ ~Truthy(payload) \/ ~isValidPayload(payload)
    THEN <<>>
    ELSE <<Emit(ev, s, payload, EmptyMap, "", IoTo(sids, to))>>

\* socket.on("offer")
Offer(s, to, offer) ==
    /\ status[s] = "connected"
    /\ Sendable(to)
    /\ out' = Relay(s, "offer", to, offer)
    /\ trace' = Traced(trace, s, out')
    /\ UNCHANGED <<dataAuthenticated, dataUsername, gen, legacy, hook>>
    /\ dbOps' = <<>>
    /\ UNCHANGED <<status, dataRoomId, dataBroadcastId, roomParticipants,
                   broadcastRegistry, chatLimiter, sids, now, accepted,
                   lastChat, dataUserId, roomDb, pending>>

\* socket.on("answer")
Answer(s, to, answer) ==
    /\ status[s] = "connected"
    /\ Sendable(to)
    /\ out' = Relay(s, "answer", to, answer)
    /\ trace' = Traced(trace, s, out')
    /\ UNCHANGED <<dataAuthenticated, dataUsername, gen, legacy, hook>>
    /\ dbOps' = <<>>
    /\ UNCHANGED <<status, dataRoomId, dataBroadcastId, roomParticipants,
                   broadcastRegistry, chatLimiter, sids, now, accepted,
                   lastChat, dataUserId, roomDb, pending>>

\* socket.on("ice-candidate")
IceCandidate(s, to, candidate) ==
    /\ status[s] = "connected"
    /\ Sendable(to)
    /\ out' = Relay(s, "ice-candidate", to, candidate)
    /\ trace' = Traced(trace, s, out')
    /\ UNCHANGED <<dataAuthenticated, dataUsername, gen, legacy, hook>>
    /\ dbOps' = <<>>
    /\ UNCHANGED <<status, dataRoomId, dataBroadcastId, roomParticipants,
                   broadcastRegistry, chatLimiter, sids, now, accepted,
                   lastChat, dataUserId, roomDb, pending>>

\* One of the three signaling events: the name of the event it relays.
Signal(s, ev, to, payload) ==
    \/ ev = "offer" /\ Offer(s, to, payload)
    \/ ev = "answer" /\ Answer(s, to, payload)
    \/ ev = "ice-candidate" /\ IceCandidate(s, to, payload)

\* The accept times that lie in the 10 seconds up to t.
Recent(times, t) == SelectSeq(times, LAMBDA a : a > t - CHAT_RATE_WINDOW)

\* The chat-message handler with the rate limiter asked before the shape of
\* the message is tested.
ChatMessageCountsFirst(s, roomId, message) ==
    /\ status[s] = "connected"
    /\ Sendable(roomId)
    /\ lastChat' = [lastChat EXCEPT ![s] = now]
    /\ LET rate == checkChatRate(chatLimiter, s, now)
           shaped == ~(~Truthy(roomId) \/ ~Truthy(message) \/ ~IsString(message)
                       \/ TrimLen(message) = 0 \/ TrimLen(message) > 1000)
       IN  /\ chatLimiter' = rate.lim
           /\ IF ~rate.ok
              THEN /\ out' = <<ErrorMessage(s, "Chat rate limit exceeded. Slow down.")>>
                   /\ dbOps' = <<>>
                   /\ accepted' = accepted
              ELSE IF ~shaped
              THEN /\ out' = <<>>
                   /\ dbOps' = <<>>
                   /\ accepted' = accepted
              ELSE /\ dbOps' = <<PushChat(roomId, message)>>
                   /\ out' = <<Emit("chat-message", s, message, EmptyMap, "",
                                    IoTo(sids, roomId))>>
                   /\ accepted' = [accepted EXCEPT ![s] = Append(Recent(@, now), now)]
    /\ trace' = Traced(trace, s, out')
    /\ UNCHANGED <<dataAuthenticated, dataUsername, gen, legacy, hook>>
    /\ UNCHANGED <<status, dataRoomId, dataBroadcastId, roomParticipants,
                   broadcastRegistry, sids, now, dataUserId, roomDb, pending>>

\* socket.on("chat-message")
ChatMessage(s, roomId, message) ==
    /\ status[s] = "connected"
    /\ Sendable(roomId)
    /\ lastChat' = [lastChat EXCEPT ![s] = now]
    /\ IF ~Truthy(roomId) \/ ~Truthy(message) \/ ~IsString(message)
          \/ TrimLen(message) = 0 \/ TrimLen(message) > 1000
       THEN /\ out' = <<>>
            /\ dbOps' = <<>>
            /\ UNCHANGED <<chatLimiter, accepted>>
       ELSE LET rate == checkChatRate(chatLimiter, s, now)
            IN  /\ chatLimiter' = rate.lim
                /\ IF ~rate.ok
                   THEN /\ out' = <<ErrorMessage(s, "Chat rate limit exceeded. Slow down.")>>
                        /\ dbOps' = <<>>
                        /\ accepted' = accepted
                   ELSE /\ dbOps' = <<PushChat(roomId, message)>>
                        /\ out' = <<Emit("chat-message", s, message, EmptyMap, "",
                                         IoTo(sids, roomId))>>
                        /\ accepted' = [accepted EXCEPT ![s] = Append(Recent(@, now), now)]
    /\ trace' = Traced(trace, s, out')
    /\ UNCHANGED <<dataAuthenticated, dataUsername, gen, legacy, hook>>
    /\ UNCHANGED <<status, dataRoomId, dataBroadcastId, roomParticipants,
                   broadcastRegistry, sids, now, dataUserId, roomDb, pending>>

\* The chat-reaction handler without the test of socket.data.userId.
ReactUnchecked(s, roomId, messageId, emoji, userId) ==
    IF ~Truthy(roomId) \/ ~Truthy(messageId) \/ ~Truthy(emoji) \/ ~IsString(emoji)
    THEN [out |-> <<>>, db |-> <<>>]
    ELSE IF StrLen(emoji) > 10
    THEN [out |-> <<>>, db |-> <<>>]
    ELSE [out |-> <<Emit("chat-reaction", userId, emoji, EmptyMap, "", IoTo(sids, roomId))>>,
          db |-> <<AddReaction(roomId, messageId, emoji, userId)>>]

\* What the chat-reaction handler emits and writes; the emit carries the
\* userId in the place of the socket id.
React(s, roomId, messageId, emoji, userId) ==
    IF ~Truthy(roomId) \/ ~Truthy(messageId) \/ ~Truthy(emoji) \/ ~IsString(emoji)
    THEN [out |-> <<>>, db |-> <<>>]
    ELSE IF StrLen(emoji) > 10
    THEN [out |-> <<>>, db |-> <<>>]
    ELSE IF ~Truthy(userId)
    THEN [out |-> <<ErrorMessage(s, "Must be authenticated to react")>>, db |-> <<>>]
    ELSE [out |-> <<Emit("chat-reaction", userId, emoji, EmptyMap, "", IoTo(sids, roomId))>>,
          db |-> <<AddReaction(roomId, messageId, emoji, userId)>>]

\* socket.on("chat-reaction")
ChatReaction(s, roomId, messageId, emoji) ==
    /\ UNCHANGED <<trace, dataAuthenticated, dataUsername, gen, legacy, hook>>
    /\ status[s] = "connected"
    /\ Sendable(roomId)
    /\ LET did == React(s, roomId, messageId, emoji, dataUserId[s])
       IN  /\ out' = did.out
           /\ dbOps' = did.db
    /\ UNCHANGED <<status, dataRoomId, dataBroadcastId, roomParticipants,
                   broadcastRegistry, chatLimiter, sids, now, accepted, lastChat,
                   dataUserId, roomDb, pending>>

\* A .catch handler that tells the room of the error.
persistErrorToRoom(op) ==
    <<Emit("error-message", Null, Null, EmptyMap, "Chat persist error",
           IoTo(sids, op.roomId))>>

\* .catch((err) => logger.error(...)) of a Room.updateOne call: what it emits.
persistError(op) == <<>>

\* The promise of the Room.updateOne call of the last handler run resolves.
UpdateOneDone ==
    /\ UNCHANGED <<trace, dataAuthenticated, dataUsername, gen, legacy, hook>>
    /\ dbOps # <<>> /\ dbOps[1].settled = "no"
    /\ dbOps' = <<[dbOps[1] EXCEPT !.settled = "ok"]>>
    /\ out' = <<>>
    /\ UNCHANGED <<status, dataRoomId, dataBroadcastId, roomParticipants,
                   broadcastRegistry, chatLimiter, sids, now, accepted, lastChat,
                   dataUserId, roomDb, pending>>

\* The promise rejects, and the .catch handler logs the error.
UpdateOneFails ==
    /\ UNCHANGED <<trace, dataAuthenticated, dataUsername, gen, legacy, hook>>
    /\ dbOps # <<>> /\ dbOps[1].settled = "no"
    /\ dbOps' = <<[dbOps[1] EXCEPT !.settled = "failed"]>>
    /\ out' = persistError(dbOps[1])
    /\ UNCHANGED <<status, dataRoomId, dataBroadcastId, roomParticipants,
                   broadcastRegistry, chatLimiter, sids, now, accepted, lastChat,
                   dataUserId, roomDb, pending>>

(***************************************************************************)
(* The waiting room.  The Room documents are written by the REST routes,   *)
(* which are not part of the handler: a room is created by an              *)
(* authenticated user, and a user is put on the waiting list of a room.    *)
(***************************************************************************)
\* POST /api/rooms of user u: a Room document with an empty waiting list.
CreateRoom(u, r) ==
    /\ UNCHANGED <<trace, dataAuthenticated, dataUsername, gen, legacy, hook>>
    /\ ~Has(roomDb, r)
    /\ roomDb' = MapSet(roomDb, r, [creator |-> u, waitingRoom |-> {}])
    /\ out' = <<>>
    /\ dbOps' = <<>>
    /\ UNCHANGED <<status, dataRoomId, dataBroadcastId, roomParticipants,
                   broadcastRegistry, chatLimiter, sids, now, accepted, lastChat,
                   dataUserId, pending>>

\* The calls that have read room r and not yet saved it lose their version
\* of the document: __v has moved on.
Outdated(ops, r) ==
    {IF op.roomId = r /\ op.pc = "save" THEN [op EXCEPT !.stale = TRUE] ELSE op : op \in ops}

\* User u is put on the waiting list of room r, by a write that moves the
\* document's version on (the save of a pushed array) or by one that does
\* not (an update in place).
EnterWaitingRoom(u, r) ==
    /\ UNCHANGED <<trace, dataAuthenticated, dataUsername, gen, legacy, hook>>
    /\ Has(roomDb, r)
    /\ u \notin roomDb[r].waitingRoom
    /\ roomDb' = [roomDb EXCEPT ![r].waitingRoom = @ \cup {u}]
    /\ \E versioned \in BOOLEAN :
           pending' = IF versioned THEN Outdated(pending, r) ELSE pending
    /\ out' = <<>>
    /\ dbOps' = <<>>
    /\ UNCHANGED <<status, dataRoomId, dataBroadcastId, roomParticipants,
                   broadcastRegistry, chatLimiter, sids, now, accepted, lastChat,
                   dataUserId>>

\* The creator test that lets every connection manage a room that exists.
AuthorisedIfRoomExists(db, roomId, userId) == Has(db, roomId)

\* room && String(room.creator) === String(socket.data.userId)
Authorised(db, roomId, userId) == Has(db, roomId) /\ db[roomId].creator = userId

\* socket.emit on a socket that may have disconnected since the event.
ToSender(s) == IF status[s] = "connected" THEN {s} ELSE {}

\* What no step of a waiting-room call changes.
WaitingFrame ==
    /\ UNCHANGED <<trace, dataAuthenticated, dataUsername, gen, legacy, hook>>
    /\ dbOps' = <<>>
    /\ UNCHANGED <<status, dataRoomId, dataBroadcastId, roomParticipants,
                   broadcastRegistry, chatLimiter, sids, now, accepted, lastChat,
                   dataUserId>>

\* approve-user and reject-user up to the first await: the shape check and
\* the call of Room.findOne({ roomId }).
WaitingRoomCall(s, roomId, userId, action) ==
    /\ Sendable(roomId)
    /\ out' = <<>>
    /\ roomDb' = roomDb
    /\ WaitingFrame
    /\ pending' = IF ~Truthy(roomId) \/ ~Truthy(userId)
                  THEN pending
                  ELSE pending \cup {[s |-> s, roomId |-> roomId, userId |-> userId,
                                      action |-> action, pc |-> "findOne",
                                      waitingRoom |-> {}, dirty |-> FALSE,
                                      stale |-> FALSE]}

\* approve-user and reject-user while fewer than MaxPending calls await the
\* database.
WaitingRoomEvent(s, roomId, userId, action) ==
    /\ Cardinality(pending) < MaxPending
    /\ WaitingRoomCall(s, roomId, userId, action)

\* socket.on("approve-user")
ApproveUser(s, roomId, userId) ==
    /\ status[s] = "connected"
    /\ WaitingRoomEvent(s, roomId, userId, "approved")

\* socket.on("reject-user")
RejectUser(s, roomId, userId) ==
    /\ status[s] = "connected"
    /\ WaitingRoomEvent(s, roomId, userId, "rejected")

\* approve-user, with one call more in flight than ApproveUser allows.
ApproveUserMeanwhile(s, roomId, userId) ==
    /\ status[s] = "connected"
    /\ Cardinality(pending) < MaxPending + 1
    /\ WaitingRoomCall(s, roomId, userId, "approved")

\* reject-user, with one call more in flight than RejectUser allows.
RejectUserMeanwhile(s, roomId, userId) ==
    /\ status[s] = "connected"
    /\ Cardinality(pending) < MaxPending + 1
    /\ WaitingRoomCall(s, roomId, userId, "rejected")

\* Room.findOne resolves: the creator test, and for the creator the filter
\* of the waiting list and the call of room.save().
FindOneDone(op) ==
    /\ op \in pending /\ op.pc = "findOne"
    /\ roomDb' = roomDb
    /\ WaitingFrame
    /\ IF ~Authorised(roomDb, op.roomId, dataUserId[op.s])
       THEN /\ out' = <<Emit("error-message", Null, Null, EmptyMap,
                             "Only room creator can manage waiting room", ToSender(op.s))>>
            /\ pending' = pending \ {op}
       ELSE /\ out' = <<>>
            /\ pending' = (pending \ {op}) \cup
                   {[op EXCEPT !.pc = "save",
                               !.waitingRoom = roomDb[op.roomId].waitingRoom \ {op.userId},
                               !.dirty = op.userId \in roomDb[op.roomId].waitingRoom]}

\* Room.findOne or room.save() rejects: the handler logs the error.
DbFails(op) ==
    /\ op \in pending /\ op.pc \in {"findOne", "save"}
    /\ pending' = pending \ {op}
    /\ out' = <<>>
    /\ roomDb' = roomDb
    /\ WaitingFrame

\* room.save() that writes the list whatever the document's version is.
saveUnversioned(db, op) ==
    [ok |-> TRUE, wrote |-> op.dirty,
     db |-> [db EXCEPT ![op.roomId].waitingRoom = op.waitingRoom]]

\* room.save() of the document that the call has read: nothing is written
\* when the filter has left the list as it was; otherwise mongoose sets the
\* whole array under the filter { _id, __v } and increments __v, and rejects
\* with VersionError when the version has moved on since the read.
save(db, op) ==
    IF ~op.dirty THEN [ok |-> TRUE, wrote |-> FALSE, db |-> db]
    ELSE IF op.stale THEN [ok |-> FALSE, wrote |-> FALSE, db |-> db]
    ELSE [ok |-> TRUE, wrote |-> TRUE,
          db |-> [db EXCEPT ![op.roomId].waitingRoom = op.waitingRoom]]

\* room.save() settles: when it resolves, io.fetchSockets() is called; when
\* it rejects, the handler logs the error.
SaveDone(op) ==
    /\ op \in pending /\ op.pc = "save"
    /\ LET saved == save(roomDb, op)
           rest == IF saved.wrote THEN Outdated(pending \ {op}, op.roomId)
                   ELSE pending \ {op}
       IN  /\ roomDb' = saved.db
           /\ pending' = IF saved.ok THEN rest \cup {[op EXCEPT !.pc = "fetchSockets"]}
                         ELSE rest
    /\ out' = <<>>
    /\ WaitingFrame

\* io.fetchSockets() resolves: the notice to one socket of the user, if one
\* is connected, and the new list to the sender.
FetchSocketsDone(op) ==
    /\ op \in pending /\ op.pc = "fetchSockets"
    /\ pending' = pending \ {op}
    /\ roomDb' = roomDb
    /\ WaitingFrame
    /\ LET targets == {x \in Sockets : status[x] = "connected" /\ dataUserId[x] = op.userId}
           updated == Emit("waiting-room-updated", Null, op.roomId,
                           [u \in op.waitingRoom |-> TRUE], "", ToSender(op.s))
       IN  IF targets = {}
           THEN out' = <<updated>>
           ELSE \E targetSocket \in targets :
                    out' = <<Emit("waiting-room-" \o op.action, Null, op.roomId, EmptyMap,
                                  "", {targetSocket}), updated>>

\* The calls a waiting-room event can leave behind.
PendingOps ==
    [s : Sockets, roomId : Names, userId : Users, action : {"approved", "rejected"},
     pc : {"findOne", "save", "fetchSockets"}, waitingRoom : SUBSET Users,
     dirty : BOOLEAN, stale : BOOLEAN]

\* The clock advances.
Tick ==
    /\ UNCHANGED <<trace, dataAuthenticated, dataUsername, gen, legacy, hook>>
    /\ now < MaxTicks * TickMs
    /\ now' = now + TickMs
    /\ accepted' = [s \in Sockets |-> Recent(accepted[s], now')]
    /\ out' = <<>>
    /\ dbOps' = <<>>
    /\ UNCHANGED <<status, dataRoomId, dataBroadcastId, roomParticipants,
                   broadcastRegistry, chatLimiter, sids, lastChat, dataUserId,
                   roomDb, pending>>

\* The chat messages counted in the sender's current rate window.
ChatCount(s) == IF Has(chatLimiter, s) THEN chatLimiter[s].count ELSE 0

\* chat-message while the sender has sent fewer than MaxChats in its window.
Chat(s, roomId, message) ==
    /\ ChatCount(s) < MaxChats
    /\ ChatMessage(s, roomId, message)

\* chat-message, up to the second one that the limiter rejects in one window.
RateChat(s, roomId, message) ==
    /\ IF Has(chatLimiter, s) /\ now <= chatLimiter[s].resetAt
       THEN chatLimiter[s].count <= CHAT_RATE_LIMIT + 1
       ELSE TRUE
    /\ ChatMessage(s, roomId, message)

\* chat-message of any shape, the well-formed ones up to one more than
\* MaxChats in the sender's window.
ShapedChat(s, roomId, message) ==
    /\ message = Text => ChatCount(s) <= MaxChats
    /\ ChatMessage(s, roomId, message)

NextRoom ==
    \/ \E s \in Sockets : Connect(s)
    \/ \E s \in Sockets, roomId \in RoomIdInputs : JoinRoom(s, roomId)
    \/ \E s \in Sockets : LeaveRoom(s)
    \/ \E s \in Sockets : Disconnect(s)

\* The room runtime alone.
SpecRoom == Init /\ [][NextRoom]_vars

NextPresence ==
    \/ \E s \in Sockets : Connect(s)
    \/ \E s \in Sockets, roomId \in RoomIdInputs : JoinRoom(s, roomId)
    \/ \E s \in Sockets : LeaveRoom(s)
    \/ \E s \in Sockets : Disconnect(s)
    \/ \E s \in Sockets, roomId \in ToInputs, v \in FlagInputs : ToggleMute(s, roomId, v)
    \/ \E s \in Sockets, roomId \in ToInputs, v \in FlagInputs : ToggleVideo(s, roomId, v)
    \/ \E s \in Sockets, roomId \in ToInputs : ScreenShareStart(s, roomId)
    \/ \E s \in Sockets, roomId \in ToInputs : ScreenShareStop(s, roomId)
    \/ \E s \in Sockets, roomId \in ToInputs, v \in FlagInputs : HandRaise(s, roomId, v)

\* The room runtime with the presence flags.
SpecPresence == Init /\ [][NextPresence]_vars

NextFlags ==
    \/ \E s \in Sockets : Connect(s)
    \/ \E s \in Sockets, roomId \in DbRoomIds : JoinRoom(s, roomId)
    \/ \E s \in Sockets : LeaveRoom(s)
    \/ \E s \in Sockets : Disconnect(s)
    \/ \E s \in Sockets, roomId \in DbRoomIds, v \in FlagInputs : ToggleMute(s, roomId, v)
    \/ \E s \in Sockets, roomId \in DbRoomIds : ScreenShareStart(s, roomId)
    \/ \E s \in Sockets, roomId \in DbRoomIds : ScreenShareStop(s, roomId)

\* Rooms whose names are no socket ids, with the mute and the screen-sharing
\* flag.
SpecFlags == Init /\ [][NextFlags]_vars

Next ==
    \/ \E s \in Sockets : Connect(s)
    \/ \E s \in Sockets, roomId \in RoomIdInputs : JoinRoom(s, roomId)
    \/ \E s \in Sockets : LeaveRoom(s)
    \/ \E s \in Sockets : Disconnect(s)
    \/ \E s \in Sockets, to \in ToInputs, p \in PayloadInputs : Offer(s, to, p)
    \/ \E s \in Sockets, to \in ToInputs, p \in PayloadInputs : Answer(s, to, p)
    \/ \E s \in Sockets, to \in ToInputs, p \in PayloadInputs : IceCandidate(s, to, p)
    \/ \E s \in Sockets, roomId \in ToInputs, m \in MessageInputs : Chat(s, roomId, m)

\* The room runtime with the signaling relay and the chat relay.
Spec == Init /\ [][Next]_vars

NextSignal ==
    \/ \E s \in Sockets : Connect(s)
    \/ \E s \in Sockets : Disconnect(s)
    \/ \E s \in Sockets, to \in ToInputs, p \in PayloadInputs : Offer(s, to, p)
    \/ \E s \in Sockets, to \in ToInputs, p \in PayloadInputs : Answer(s, to, p)
    \/ \E s \in Sockets, to \in ToInputs, p \in PayloadInputs : IceCandidate(s, to, p)

\* The signaling relay between connections that are in no room.
SpecSignal == Init /\ [][NextSignal]_vars

NextReact ==
    \/ \E s \in Sockets : Connect(s)
    \/ \E s \in Sockets, u \in Users : ConnectAs(s, u)
    \/ \E s \in Sockets, roomId \in ToInputs, messageId \in MessageIdInputs,
          emoji \in EmojiInputs : ChatReaction(s, roomId, messageId, emoji)
    \/ \E s \in Sockets : Disconnect(s)

\* Chat reactions of guests and of authenticated connections.
SpecReact == Init /\ [][NextReact]_vars

NextWaiting ==
    \/ \E s \in Sockets : Connect(s)
    \/ \E s \in Sockets, u \in Users : ConnectAs(s, u)
    \/ \E s \in Sockets : Disconnect(s)
    \/ \E u \in Users, r \in DbRoomIds : CreateRoom(u, r)
    \/ \E u \in Users, r \in DbRoomIds : EnterWaitingRoom(u, r)
    \/ \E s \in Sockets, roomId \in ToInputs, userId \in UserIdInputs :
          ApproveUser(s, roomId, userId)
    \/ \E s \in Sockets, roomId \in ToInputs, userId \in UserIdInputs :
          RejectUser(s, roomId, userId)
    \/ \E op \in PendingOps : FindOneDone(op)
    \/ \E op \in PendingOps : DbFails(op)
    \/ \E op \in PendingOps : SaveDone(op)
    \/ \E op \in PendingOps : FetchSocketsDone(op)

\* The management of the waiting room.
SpecWaiting == Init /\ [][NextWaiting]_vars

NextHost ==
    \/ \E s \in Sockets, u \in Users : ConnectAs(s, u)
    \/ \E s \in Sockets : Disconnect(s)
    \/ \E u \in Users, r \in DbRoomIds : CreateRoom(u, r)
    \/ \E u \in Users, r \in DbRoomIds : EnterWaitingRoom(u, r)
    \/ \E s \in Sockets, roomId \in DbRoomIds, userId \in Users :
          ApproveUserMeanwhile(s, roomId, userId)
    \/ \E s \in Sockets, roomId \in DbRoomIds, userId \in Users :
          RejectUserMeanwhile(s, roomId, userId)
    \/ \E op \in pending : FindOneDone(op)
    \/ \E op \in pending : DbFails(op)
    \/ \E op \in pending : SaveDone(op)
    \/ \E op \in pending : FetchSocketsDone(op)

\* Calls of authenticated connections on the waiting lists of rooms that
\* exist or not, several of them in flight at once.
SpecHost == Init /\ [][NextHost]_vars

NextPersist ==
    \/ \E s \in Sockets : Connect(s)
    \/ \E s \in Sockets, roomId \in DbRoomIds : JoinRoom(s, roomId)
    \/ \E s \in Sockets : LeaveRoom(s)
    \/ \E s \in Sockets : Disconnect(s)
    \/ \E s \in Sockets, roomId \in DbRoomIds \cup {Null}, m \in {Text, Blank} :
          RateChat(s, roomId, m)
    \/ UpdateOneDone
    \/ UpdateOneFails

\* The chat relay in rooms whose names are no socket ids, with the writes of
\* the chat log settling after the handler has run.
SpecPersist == Init /\ [][NextPersist]_vars

\* s has had fewer than MaxSent envelopes and chat messages accepted.
MaySend(s) == trace.seq[s] < MaxSent

NextOrder ==
    \/ \E s \in Sockets : Connect(s)
    \/ \E s \in Sockets, roomId \in DbRoomIds : JoinRoom(s, roomId)
    \/ \E s \in Sockets : Disconnect(s)
    \/ \E s \in Sockets : \E to \in Sockets \ {s}, p \in {SmallA} :
          MaySend(s) /\ Offer(s, to, p)
    \/ \E s \in Sockets : \E to \in Sockets \ {s}, p \in {SmallA} :
          MaySend(s) /\ Answer(s, to, p)
    \/ \E s \in Sockets : \E to \in Sockets \ {s}, p \in {SmallA} :
          MaySend(s) /\ IceCandidate(s, to, p)
    \/ \E s \in Sockets, roomId \in DbRoomIds, m \in {Text} :
          MaySend(s) /\ RateChat(s, roomId, m)

\* The signaling relay and the chat relay, with the record of what is
\* written to each connection.
SpecOrder == InitOrder /\ [][NextOrder]_vars

NextLimiter ==
    \/ \E s \in Sockets : Connect(s)
    \/ \E s \in Sockets, roomId \in ToInputs, m \in {Text, Blank} :
          MaySend(s) /\ RateChat(s, roomId, m)
    \/ \E s \in Sockets : Disconnect(s)

\* The chat relay and its limiter, with the record of what is written to
\* each connection.
SpecLimiter == InitOrder /\ [][NextLimiter]_vars

\* What a client of server.js can send as a name: no id of a socket that is
\* yet to connect.
LegacySendable(x) == x \in Sockets => legacy.status[x] # "idle"

\* io.on("connection") of server.js: the socket is in the room named by its
\* id.
LegacyConnect(s) ==
    /\ legacy.status[s] = "idle"
    /\ legacy' = [legacy EXCEPT !.status[s] = "connected", !.sids[s] = {s}, !.out = <<>>]
    /\ UNCHANGED <<server, gen, hook>>

\* socket.on("join-room") of server.js
LegacyJoinRoom(s, roomId, role, peerId) ==
    /\ legacy.status[s] = "connected"
    /\ LegacySendable(roomId)
    /\ legacy' = legacyJoinRoom(legacy, s, roomId, role, peerId)
    /\ UNCHANGED <<server, gen, hook>>

\* socket.on("offer"), socket.on("answer"), socket.on("ice-candidate") of
\* server.js: the payload goes to the other peer of the room.
LegacyRelay(s, ev, data) ==
    /\ legacy.status[s] = "connected"
    /\ LET targetId == getPeerId(legacy, s)
       IN  legacy' = [legacy EXCEPT !.out =
                         IF isValidPayload(data) /\ targetId # Null
                         THEN <<Emit(ev, Null, data, EmptyMap, "", IoTo(legacy.sids, targetId))>>
                         ELSE <<>>]
    /\ UNCHANGED <<server, gen, hook>>

\* socket.on("disconnect") of server.js: socket.io has taken the socket out
\* of all its rooms before the handler runs.
LegacyDisconnect(s) ==
    /\ legacy.status[s] = "connected"
    /\ legacy' = [legacyLeaveRoom([legacy EXCEPT !.sids[s] = {}, !.out = <<>>], s)
                     EXCEPT !.status[s] = "closed"]
    /\ UNCHANGED <<server, gen, hook>>

NextLegacy ==
    \/ \E s \in Sockets : LegacyConnect(s)
    \/ \E s \in Sockets, roomId \in RoomIdInputs, role \in RoleInputs, peerId \in PeerIdInputs :
          LegacyJoinRoom(s, roomId, role, peerId)
    \/ \E s \in Sockets, ev \in {"offer", "answer", "ice-candidate"},
          data \in {Null, SmallA, HugePayload} : LegacyRelay(s, ev, data)
    \/ \E s \in Sockets : LegacyDisconnect(s)

\* The 1:1 signaling server.
SpecLegacy == Init /\ [][NextLegacy]_vars

NextDuo ==
    \/ \E s \in Sockets : LegacyConnect(s)
    \/ \E s \in Sockets, roomId \in Names, role \in {"broadcaster", "viewer"} :
          LegacyJoinRoom(s, roomId, role, PeerA)
    \/ \E s \in Sockets : LegacyDisconnect(s)

\* The rooms of the 1:1 signaling server, with well-formed join-room events.
SpecDuo == Init /\ [][NextDuo]_vars

\* The handlers of socket k are registered and the socket is connected.
Hears(k) ==
    /\ k \in 1..Len(hook.socks)
    /\ hook.socks[k].listeners
    /\ hook.socks[k].state = "connected"

\* startCall(), up to await getCameraStream(facingMode).
StartCall ==
    /\ hook.calls < MaxCalls
    /\ hook' = [CleanUp(hook) EXCEPT !.tasks = @ \cup {[op |-> "startCall", sock |-> Null,
                                                        pc |-> Null]},
                                     !.calls = @ + 1, !.quiet = FALSE]
    /\ UNCHANGED <<server, gen, legacy>>

\* joinCall(roomId), up to await getCameraStream("user"); with a blank
\* roomId it sets the error text only.
JoinCall(blank) ==
    /\ hook.calls < MaxCalls
    /\ hook' = IF blank THEN hook
               ELSE [CleanUp([hook EXCEPT !.status = "connecting"])
                       EXCEPT !.tasks = @ \cup {[op |-> "joinCall", sock |-> Null,
                                                 pc |-> Null]},
                              !.calls = @ + 1, !.quiet = FALSE]
    /\ UNCHANGED <<server, gen, legacy>>

\* getCameraStream settles: startCall or joinCall goes on after its await,
\* or to its catch block.
CameraDone(t, ok) ==
    /\ t \in hook.tasks /\ t.op \in {"startCall", "joinCall"}
    /\ LET h == [hook EXCEPT !.tasks = @ \ {t}]
       IN  hook' = IF ok THEN OpenSocket(h, t.op) ELSE [h EXCEPT !.status = "error"]
    /\ UNCHANGED <<server, gen, legacy>>

\* The callback of setTimeout(..., CONNECT_TIMEOUT) of socket k.
ConnectTimeout(k) ==
    /\ k \in hook.timers
    /\ hook' = [hook EXCEPT !.timers = @ \ {k},
                            !.status = IF hook.socks[k].state # "connected"
                                       THEN "error" ELSE @]
    /\ UNCHANGED <<server, gen, legacy>>

\* Socket k connects: socket.on("connect") clears the timer and sends
\* join-room, if the handlers are still registered.
OnConnect(k) ==
    /\ k \in 1..Len(hook.socks) /\ hook.socks[k].state = "connecting"
    /\ hook' = [hook EXCEPT !.socks[k].state = "connected",
                            !.timers = IF hook.socks[k].listeners THEN @ \ {k} ELSE @]
    /\ UNCHANGED <<server, gen, legacy>>

\* socket.on("connect_error")
OnConnectError(k) ==
    /\ k \in 1..Len(hook.socks) /\ hook.socks[k].state = "connecting"
    /\ hook.socks[k].listeners
    /\ hook' = [hook EXCEPT !.timers = @ \ {k}, !.status = "error"]
    /\ UNCHANGED <<server, gen, legacy>>

\* socket.on("room-participants"), with or without other participants.
OnRoomParticipants(k, others) ==
    /\ Hears(k)
    /\ hook' = [hook EXCEPT !.status =
                   IF hook.socks[k].kind = "startCall" THEN "waiting"
                   ELSE IF others THEN "connecting" ELSE "error"]
    /\ UNCHANGED <<server, gen, legacy>>

\* socket.on("user-joined") of startCall and socket.on("offer") of joinCall,
\* up to await getRTCConfig() in setupPeerConnection.
OnPeer(k) ==
    /\ Hears(k)
    /\ Len(hook.pcs) + Cardinality({t \in hook.tasks : t.op = "setup"}) < MaxPcs
    /\ [op |-> "setup", sock |-> k, pc |-> Null] \notin hook.tasks
    /\ hook' = [hook EXCEPT
                   !.status = IF hook.socks[k].kind = "startCall" THEN "connected" ELSE @,
                   !.pcs = ClosePc(@, hook.pcRef),
                   !.tasks = @ \cup {[op |-> "setup", sock |-> k, pc |-> Null]}]
    /\ UNCHANGED <<server, gen, legacy>>

\* getRTCConfig() settles: setupPeerConnection makes the RTCPeerConnection
\* and stores it in pcRef, and the handler goes on to its next await.
RtcConfigDone(t) ==
    /\ t \in hook.tasks /\ t.op = "setup"
    /\ LET n == Len(hook.pcs) + 1
       IN  hook' = [hook EXCEPT !.pcs = Append(@, "open"),
                                !.pcRef = n,
                                !.tasks = (@ \ {t}) \cup
                                          {[op |-> "negotiate", sock |-> t.sock, pc |-> n]}]
    /\ UNCHANGED <<server, gen, legacy>>

\* createOffer / setRemoteDescription ... settle: the handler sends the
\* offer or the answer, or goes to its catch block.
NegotiationDone(t, ok) ==
    /\ t \in hook.tasks /\ t.op = "negotiate"
    /\ hook' = [hook EXCEPT !.tasks = @ \ {t},
                            !.status = IF ok THEN @ ELSE "error"]
    /\ UNCHANGED <<server, gen, legacy>>

\* pc.onconnectionstatechange and pc.ontrack of a connection that is not
\* closed.
OnConnectionState(n, state) ==
    /\ n \in 1..Len(hook.pcs) /\ hook.pcs[n] = "open"
    /\ hook' = IF state = "connected"
               THEN [hook EXCEPT !.status = "streaming"]
               ELSE [hook EXCEPT !.status = "disconnected",
                                 !.pcs[n] = "closed",
                                 !.pcRef = IF hook.pcRef = n THEN Null ELSE @]
    /\ UNCHANGED <<server, gen, legacy>>

\* socket.on("disconnect") with a reason other than "io client disconnect":
\* the connection is lost and the socket tries again.
OnSocketDisconnect(k) ==
    /\ Hears(k)
    /\ hook' = [hook EXCEPT !.status = "disconnected", !.socks[k].state = "connecting"]
    /\ UNCHANGED <<server, gen, legacy>>

\* disconnect() is called.
HookDisconnect ==
    /\ hook' = disconnect(hook)
    /\ UNCHANGED <<server, gen, legacy>>

NextHook ==
    \/ StartCall
    \/ \E blank \in BOOLEAN : JoinCall(blank)
    \/ \E t \in hook.tasks, ok \in BOOLEAN : CameraDone(t, ok)
    \/ \E k \in 1..MaxCalls : ConnectTimeout(k)
    \/ \E k \in 1..MaxCalls : OnConnect(k)
    \/ \E k \in 1..MaxCalls : OnConnectError(k)
    \/ \E k \in 1..MaxCalls, others \in BOOLEAN : OnRoomParticipants(k, others)
    \/ \E k \in 1..MaxCalls : OnPeer(k)
    \/ \E t \in hook.tasks : RtcConfigDone(t)
    \/ \E t \in hook.tasks, ok \in BOOLEAN : NegotiationDone(t, ok)
    \/ \E n \in 1..MaxPcs, state \in {"connected", "disconnected", "failed"} :
          OnConnectionState(n, state)
    \/ \E k \in 1..MaxCalls : OnSocketDisconnect(k)
    \/ HookDisconnect

\* A component that uses usePeerCall.
SpecHook == Init /\ [][NextHook]_vars

NextOutsider ==
    \/ \E s \in Sockets : Connect(s)
    \/ \E s \in Sockets, u \in Users : ConnectAs(s, u)
    \/ \E s \in Sockets, roomId \in DbRoomIds : JoinRoom(s, roomId)
    \/ \E s \in Sockets, roomId \in DbRoomIds : RateChat(s, roomId, Text)
    \/ \E s \in Sockets, roomId \in DbRoomIds : ChatReaction(s, roomId, Msg, Thumb)
    \/ \E s \in Sockets : Disconnect(s)

\* Chat messages and reactions of connections inside and outside the rooms
\* they name, the rooms named by no socket id.
SpecOutsider == Init /\ [][NextOutsider]_vars

NextAuth ==
    \/ \E s \in Sockets, token \in TokenInputs : Handshake(s, token)
    \/ \E s \in Sockets, roomId \in DbRoomIds : JoinRoom(s, roomId)
    \/ \E s \in Sockets : LeaveRoom(s)
    \/ \E s \in Sockets, roomId \in DbRoomIds : ChatReaction(s, roomId, Msg, Thumb)
    \/ \E s \in Sockets : Disconnect(s)

\* Handshakes with every kind of token, and handlers that read
\* socket.data.userId.
SpecAuth == Init /\ [][NextAuth]_vars

NextSilent ==
    \/ \E s \in Sockets : Connect(s)
    \/ \E s \in Sockets, roomId \in DbRoomIds : JoinRoom(s, roomId)
    \/ \E s \in Sockets : LeaveRoom(s)
    \/ \E s \in Sockets : Disconnect(s)
    \/ \E s \in Sockets, roomId \in DbRoomIds \cup {Null}, v \in FlagInputs :
          ToggleMute(s, roomId, v)
    \/ \E s \in Sockets, roomId \in DbRoomIds \cup {Null}, v \in FlagInputs :
          ToggleVideo(s, roomId, v)
    \/ \E s \in Sockets, roomId \in DbRoomIds \cup {Null} : ScreenShareStart(s, roomId)
    \/ \E s \in Sockets, roomId \in DbRoomIds \cup {Null} : ScreenShareStop(s, roomId)
    \/ \E s \in Sockets, roomId \in DbRoomIds \cup {Null}, v \in FlagInputs :
          HandRaise(s, roomId, v)

\* The five presence handlers in rooms whose names are no socket ids.
SpecSilent == Init /\ [][NextSilent]_vars

NextShape ==
    \/ \E s \in Sockets : Connect(s)
    \/ \E s \in Sockets, roomId \in ToInputs, m \in MessageInputs : ShapedChat(s, roomId, m)
    \/ \E s \in Sockets : Disconnect(s)

\* The chat relay with messages of every shape.
SpecShape == Init /\ [][NextShape]_vars

\* One round of the while loop of generateRoomId: fresh bytes for what is
\* missing, and the for loop over them.
Round(bytes) ==
    /\ gen.pc = "while"
    /\ Len(gen.result) < gen.length
    /\ gen.draws < MaxDraws
    /\ Len(bytes) = gen.length - Len(gen.result)
    /\ gen' = [gen EXCEPT !.result = forLoop(bytes, 1, @, gen.length),
                          !.draws = @ + 1,
                          !.bytes = bytes]
    /\ UNCHANGED <<server, legacy, hook>>

\* A round with bytes out of ByteInputs.
WhileBody ==
    /\ gen.pc = "while"
    /\ \E bytes \in randomBytes(gen.length - Len(gen.result)) : Round(bytes)

\* A round of generateRoomId(1): one byte of any value.
WhileByte ==
    /\ gen.length = 1
    /\ \E b \in Bytes : Round(<<b>>)

\* The while loop ends and generateRoomId returns result.
Return ==
    /\ gen.pc = "while"
    /\ ~(Len(gen.result) < gen.length)
    /\ gen' = [gen EXCEPT !.pc = "done"]
    /\ UNCHANGED <<server, legacy, hook>>

NextIds == WhileBody \/ Return

NextByte == WhileByte \/ Return

\* generateRoomId(1) over every value of a byte.
SpecByte == InitByte /\ [][NextByte]_vars

\* generateRoomId(length) for each length up to MaxLen.
SpecIds == InitIds /\ [][NextIds]_vars

NextBroadcast ==
    \/ \E s \in Sockets : Connect(s)
    \/ \E s \in Sockets, b \in BidInputs : CreateBroadcast(s, b)
    \/ \E s \in Sockets, b \in BidInputs : JoinBroadcast(s, b)
    \/ \E s \in Sockets : Disconnect(s)

\* The broadcast registry.
SpecBroadcast == Init /\ [][NextBroadcast]_vars

NextRate ==
    \/ \E s \in Sockets : Connect(s)
    \/ \E s \in Sockets : RateChat(s, s, Text)
    \/ Tick
    \/ \E s \in Sockets : Disconnect(s)

\* The chat rate limiter under a clock, each connection sending valid
\* messages to the room named by its own id.
SpecRate == Init /\ [][NextRate]_vars

NextFlood ==
    \/ \E s \in Sockets : Connect(s)
    \/ \E s \in Sockets, roomId \in ToInputs, m \in {Text, Blank} : RateChat(s, roomId, m)
    \/ \E s \in Sockets : Disconnect(s)

\* The chat relay within one instant of the clock.
SpecFlood == Init /\ [][NextFlood]_vars

(***************************************************************************)
(* Properties.                                                             *)
(***************************************************************************)
\* The roster of room r: the socket ids in roomParticipants.get(r).
Roster(rp, r) == IF Has(rp, r) THEN DOMAIN rp[r] ELSE {}

\* The emits of es named ev.
Named(es, ev) == {i \in 1..Len(es) : es[i].ev = ev}

\* C1: a connection's id is in the roster of room r if and only if its
\* socket.data.roomId is r.
C1_RosterIffRoomId ==
    \A c \in Sockets, r \in Names :
        (c \in Roster(roomParticipants, r)) <=> (dataRoomId[c] = r)

\* A connection has left a room in which another connection stays, and the
\* one that stays was told.
C1_Witness ==
    \E c, d \in Sockets :
        /\ c # d
        /\ status[d] = "connected" /\ dataRoomId[d] = Null
        /\ dataRoomId[c] # Null /\ Roster(roomParticipants, dataRoomId[c]) = {c}
        /\ \E i \in Named(out, "user-left") : out[i].sid = d /\ c \in out[i].to

\* C2: when a connection in room r disconnects, every other participant of
\* r receives user-left naming it exactly once, and a disconnect after
\* leave-room emits no further user-left.
C2_UserLeftExactlyOnce ==
    [][\A c \in Sockets :
          Disconnect(c) =>
              \A p \in Sockets \ {c} :
                  /\ p \in Roster(roomParticipants, dataRoomId[c])
                        => LeftCount(c, p, out') = 1
                  /\ dataRoomId[c] = Null => LeftCount(c, p, out') = 0]_vars

\* C3: an accepted offer, answer or ice-candidate with target `to' is
\* received by the connection `to' alone when it is live, and by nobody
\* when it is not.
C3_PointToPoint ==
    [][\A s \in Sockets, to \in ToInputs, p \in PayloadInputs :
          (Offer(s, to, p) \/ Answer(s, to, p) \/ IceCandidate(s, to, p))
          /\ Truthy(to) /\ Truthy(p) /\ isValidPayload(p)
          => /\ Len(out') = 1
             /\ out'[1].to = IF to \in Sockets /\ status[to] = "connected"
                              THEN {to} ELSE {}]_vars

\* C4: create-broadcast under an id that the registry maps to another
\* connection fails with the error message and leaves the entry alone.
C4_NoHijack ==
    [][\A s \in Sockets, b \in Bids :
          CreateBroadcast(s, b) /\ Has(broadcastRegistry, b) /\ broadcastRegistry[b] # s
          => /\ broadcastRegistry'[b] = broadcastRegistry[b]
             /\ out' = <<ErrorMessage(s, "Valid broadcastId is required")>>]_vars

\* C5: every value of the broadcast registry is a connected connection.
C5_RegistryLive ==
    \A b \in DOMAIN broadcastRegistry : status[broadcastRegistry[b]] = "connected"

\* C6: in every interval of 10 seconds a connection has at most
\* CHAT_RATE_LIMIT chat messages accepted.
C6_SlidingWindow ==
    \A s \in Sockets : Len(accepted[s]) <= CHAT_RATE_LIMIT

\* C7: a chat-message is delivered only to connections that have joined the
\* room it names and have not left it.
C7_ChatOnlyToJoined ==
    [][\A s \in Sockets, roomId \in ToInputs, m \in MessageInputs :
          ChatMessage(s, roomId, m)
          => \A i \in Named(out', "chat-message") :
                 \A r \in out'[i].to : dataRoomId[r] = roomId]_vars

\* C8: an accepted chat-message is delivered to every connection in the
\* roster of the room it names and to its sender.
C8_ChatToRosterAndSender ==
    [][\A s \in Sockets, roomId \in ToInputs, m \in MessageInputs :
          ChatMessage(s, roomId, m)
          => \A i \in Named(out', "chat-message") :
                 Roster(roomParticipants, roomId) \cup {s} \subseteq out'[i].to]_vars

\* C9: for a connection in a room, the roster it holds (the snapshot, then
\* the user-joined and user-left events in delivery order) is the live
\* roster of its room: every handler run takes the one to the other.
C9_RosterConsistency ==
    [][\A j \in Sockets :
          dataRoomId'[j] # Null
          => ApplyEmits(Roster(roomParticipants, dataRoomId[j]), j, out')
             = Roster(roomParticipants', dataRoomId'[j])]_vars

\* C10: an envelope with a valid payload that A sends to B, both live and
\* in the same room, is delivered to B with from = A and the payload as
\* sent.
C10_RoundTrip ==
    [][\A a, b \in Sockets, p \in PayloadInputs :
          \A ev \in {"offer", "answer", "ice-candidate"} :
              Signal(a, ev, b, p) /\ a # b /\ status[b] = "connected"
              /\ dataRoomId[a] # Null /\ dataRoomId[a] = dataRoomId[b]
              /\ Truthy(p) /\ isValidPayload(p)
              => \E i \in Named(out', ev) :
                     b \in out'[i].to /\ out'[i].sid = a /\ out'[i].data = p]_vars

\* C11: on a valid join-room(r) exactly one room-participants message is
\* sent, to the joiner alone, and it lists the connections that were in the
\* roster of r, each with the flags it had, and the joiner with the default
\* flags.
C11_SnapshotToJoiner ==
    [][\A s \in Sockets, r \in Names :
          JoinRoom(s, r)
          => \E i \in 1..Len(out') :
                 /\ Named(out', "room-participants") = {i}
                 /\ out'[i].to = {s}
                 /\ DOMAIN out'[i].list = Roster(roomParticipants, r) \cup {s}
                 /\ out'[i].list[s] = DefaultInfo
                 /\ \A c \in Roster(roomParticipants, r) \ {s} :
                        out'[i].list[c] = roomParticipants[r][c]]_vars

\* A connection has joined a room in which a muted connection is, and the
\* snapshot it got lists both.
C11_Witness ==
    \E i \in Named(out, "room-participants") :
        \E s, c \in DOMAIN out[i].list :
            /\ s # c
            /\ out[i].to = {s}
            /\ out[i].list[c].muted /\ ~out[i].list[s].muted

\* C12: the user-joined for a join-room(r) of J is delivered to every
\* connection that was in the roster of r when J was added, not to J and
\* not to a connection outside that roster.
C12_UserJoinedToRoster ==
    [][\A j \in Sockets, r \in Names :
          JoinRoom(j, r)
          => \E i \in 1..Len(out') :
                 /\ Named(out', "user-joined") = {i}
                 /\ out'[i].sid = j
                 /\ out'[i].to = Roster(roomParticipants, r) \ {j}]_vars

\* C13: join-room with a roomId that is missing, empty, no string or longer
\* than 128 characters sends the error message to the sender alone and
\* changes nothing: the sender stays in the room it was in, and nobody else
\* is notified.
C13_InvalidJoinRefused ==
    [][\A s \in Sockets, roomId \in {Null, EmptyStr, LongStr, NotString} :
          JoinRoom(s, roomId)
          => /\ out' = <<ErrorMessage(s, "Valid roomId is required")>>
             /\ UNCHANGED <<status, dataRoomId, dataBroadcastId, roomParticipants,
                            broadcastRegistry, chatLimiter, sids, dataUserId, roomDb,
                            pending>>
             /\ dbOps' = <<>>]_vars

\* A connection that shares a room with another one has sent an invalid
\* join-room and was refused.
C13_Witness ==
    \E s, c \in Sockets :
        /\ s # c
        /\ dataRoomId[s] # Null /\ dataRoomId[c] = dataRoomId[s]
        /\ {s, c} \subseteq Roster(roomParticipants, dataRoomId[s])
        /\ out = <<ErrorMessage(s, "Valid roomId is required")>>

\* C14: leave-room is idempotent: it leaves the connection in no room, and a
\* leave-room of a connection that is in no room changes nothing and sends
\* nothing.
C14_LeaveIdempotent ==
    [][\A s \in Sockets :
          LeaveRoom(s)
          => /\ dataRoomId'[s] = Null
             /\ dataRoomId[s] = Null
                => /\ out' = <<>>
                   /\ dbOps' = <<>>
                   /\ UNCHANGED <<status, dataRoomId, dataBroadcastId, roomParticipants,
                                  broadcastRegistry, chatLimiter, sids, dataUserId,
                                  roomDb, pending>>]_vars

\* A connection has left a room in which another one stays and was told: a
\* further leave-room of it is the repeated one.
C14_Witness ==
    \E s, c \in Sockets :
        /\ s # c
        /\ status[s] = "connected" /\ dataRoomId[s] = Null
        /\ dataRoomId[c] # Null /\ c \in Roster(roomParticipants, dataRoomId[c])
        /\ s \notin Roster(roomParticipants, dataRoomId[c])
        /\ \E i \in Named(out, "user-left") : out[i].sid = s /\ out[i].to = {c}

\* C15: roomParticipants holds no room with an empty participant map.
C15_NoEmptyRoom ==
    \A r \in DOMAIN roomParticipants : DOMAIN roomParticipants[r] # {}

\* The last participant of a room has left it, and the room is gone.
C15_Witness ==
    /\ roomParticipants = EmptyMap
    /\ \E s \in Sockets :
           /\ status[s] = "connected" /\ dataRoomId[s] = Null
           /\ \E i \in Named(out, "user-left") : out[i].sid = s

\* The payload is one of those that the claim C16 lists as dropped.
Unrelayable(p) == p = Null \/ JsonThrows(p) \/ JsonLength(p) > MAX_PAYLOAD_SIZE

\* The handler run has changed nothing and sent nothing.
Silent ==
    /\ out' = <<>>
    /\ dbOps' = <<>>
    /\ UNCHANGED <<status, dataRoomId, dataBroadcastId, roomParticipants,
                   broadcastRegistry, chatLimiter, sids, dataUserId, roomDb, pending>>

\* The handler run has sent one envelope named ev, from s, with payload p.
Relayed(s, ev, p) ==
    /\ Len(out') = 1
    /\ out'[1].ev = ev /\ out'[1].sid = s /\ out'[1].data = p

\* C16 as written: an offer, answer or ice-candidate that names a target is
\* dropped silently when its payload is null, cannot be serialized or
\* serializes to more than 65,536 characters, and is relayed otherwise.
C16_SizeDecides ==
    [][\A s \in Sockets, to \in Names, p \in PayloadInputs :
          \A ev \in {"offer", "answer", "ice-candidate"} :
              Signal(s, ev, to, p)
              => IF Unrelayable(p) THEN Silent ELSE Relayed(s, ev, p)]_vars

\* C16 amended: the envelope is dropped silently when it names no target or
\* its payload is falsy (null, undefined, ""), cannot be serialized or
\* serializes to more than 65,536 characters; a truthy payload that
\* serializes to 65,536 characters or less, with a target named, is relayed.
C16_TruthySizeDecides ==
    [][\A s \in Sockets, to \in ToInputs, p \in PayloadInputs :
          \A ev \in {"offer", "answer", "ice-candidate"} :
              Signal(s, ev, to, p)
              => IF to = Null \/ p = EmptyStr \/ Unrelayable(p)
                 THEN Silent
                 ELSE Relayed(s, ev, p)]_vars

\* A payload that serializes to exactly 65,536 characters has been relayed
\* to a connection other than its sender.
C16_Witness ==
    \E i \in 1..Len(out) :
        /\ out[i].ev \in {"offer", "answer", "ice-candidate"}
        /\ out[i].data = EdgePayload
        /\ \E c \in out[i].to : c # out[i].sid /\ status[c] = "connected"

\* The limiter has counted CHAT_RATE_LIMIT messages of s in a window that
\* is still open.
Limited(s) ==
    /\ Has(chatLimiter, s)
    /\ now <= chatLimiter[s].resetAt
    /\ chatLimiter[s].count >= CHAT_RATE_LIMIT

\* C17: a valid chat-message that the rate limiter rejects is delivered to
\* nobody and not persisted: the handler sends one error-message, to the
\* sender alone, and writes nothing but the limiter's count.
C17_RejectedChatUnseen ==
    [][\A s \in Sockets, roomId \in Names :
          ChatMessage(s, roomId, Text) /\ Limited(s)
          => /\ Len(out') = 1
             /\ out'[1].ev = "error-message"
             /\ out'[1].msg = "Chat rate limit exceeded. Slow down."
             /\ out'[1].to = {s}
             /\ dbOps' = <<>>
             /\ chatLimiter'[s].resetAt = chatLimiter[s].resetAt
             /\ UNCHANGED <<status, dataRoomId, dataBroadcastId, roomParticipants,
                            broadcastRegistry, sids, dataUserId, roomDb, pending>>]_vars

\* A connection has had a chat-message refused by the limiter while another
\* connection is live.
C17_Witness ==
    \E s, c \in Sockets :
        /\ s # c /\ status[c] = "connected"
        /\ Has(chatLimiter, s) /\ chatLimiter[s].count > CHAT_RATE_LIMIT
        /\ Len(out) = 1
        /\ out[1].ev = "error-message" /\ out[1].to = {s}
        /\ out[1].msg = "Chat rate limit exceeded. Slow down."

\* C18: a connection that the limiter has refused and that then sends no
\* chat-message for 10 seconds has its next valid message accepted, also
\* when that message comes exactly 10,000 ms after its last one.
C18_IdleThenAccepted ==
    [][\A s \in Sockets, roomId \in Names :
          /\ ChatMessage(s, roomId, Text)
          /\ Has(chatLimiter, s) /\ chatLimiter[s].count > CHAT_RATE_LIMIT
          /\ lastChat[s] # Never /\ now >= lastChat[s] + CHAT_RATE_WINDOW
          => \E i \in Named(out', "chat-message") : out'[i].sid = s]_vars

IsCreator(s, roomId) == Has(roomDb, roomId) /\ roomDb[roomId].creator = dataUserId[s]

\* The emits are the one error message of the waiting room, to s only.
OnlyCreatorError(es, s) ==
    /\ Len(es) = 1
    /\ es[1].ev = "error-message"
    /\ es[1].msg = "Only room creator can manage waiting room"
    /\ es[1].to \subseteq {s}
    /\ status[s] = "connected" => es[1].to = {s}

\* Only a call of the room's creator takes a user off a waiting list or
\* sends waiting-room-approved or waiting-room-rejected.
OnlyCreatorActs ==
    /\ \A r \in DOMAIN roomDb :
           ~(roomDb[r].waitingRoom \subseteq roomDb'[r].waitingRoom)
           => \E op \in pending : op.pc = "save" /\ op.roomId = r /\ IsCreator(op.s, r)
    /\ \A i \in Named(out', "waiting-room-approved") \cup Named(out', "waiting-room-rejected") :
           \E op \in pending : op.pc = "fetchSockets" /\ IsCreator(op.s, op.roomId)

\* C20 as written: every approve-user or reject-user of a connection that is
\* not the room's creator is answered with the error message, to the sender
\* only, and never changes a waiting list nor sends waiting-room-approved
\* or waiting-room-rejected: the event starts a look-up of the room, and the
\* look-up ends in the error message.
C20_NonCreatorRefused ==
    [][/\ \A s \in Sockets, roomId \in ToInputs, userId \in UserIdInputs :
             (ApproveUser(s, roomId, userId) \/ RejectUser(s, roomId, userId))
             /\ ~IsCreator(s, roomId)
             => \E op \in pending' : op.s = s /\ op.pc = "findOne"
       /\ \A op \in pending :
             op.pc = "findOne" /\ ~IsCreator(op.s, op.roomId) /\ op \notin pending'
             => OnlyCreatorError(out', op.s)
       /\ OnlyCreatorActs]_vars

\* C20 amended: an approve-user or reject-user that names a room and a user
\* starts a look-up of the room and nothing else, and one that lacks either
\* is dropped; when the look-up returns for a connection that is not the
\* room's creator (a guest, or no such room), the error message is sent to
\* the sender only and the call ends; when it fails, the call ends silently.
\* No call of a non-creator changes a waiting list or sends
\* waiting-room-approved or waiting-room-rejected.
C20_NonCreatorHarmless ==
    [][/\ \A s \in Sockets, roomId \in ToInputs, userId \in UserIdInputs :
             ApproveUser(s, roomId, userId) \/ RejectUser(s, roomId, userId)
             => /\ out' = <<>> /\ roomDb' = roomDb
                /\ IF roomId = Null \/ userId = Null
                   THEN pending' = pending
                   ELSE \E op \in pending' : op.s = s /\ op.pc = "findOne"
       /\ \A op \in PendingOps :
             FindOneDone(op) /\ ~IsCreator(op.s, op.roomId)
             => /\ OnlyCreatorError(out', op.s)
                /\ pending' = pending \ {op}
                /\ roomDb' = roomDb
       /\ \A op \in PendingOps : DbFails(op) => out' = <<>> /\ roomDb' = roomDb
       /\ OnlyCreatorActs]_vars

\* A guest has been refused the management of a room on whose waiting list
\* a connected user is.
C20_Witness ==
    \E s, c \in Sockets, r \in DOMAIN roomDb :
        /\ s # c
        /\ status[s] = "connected" /\ dataUserId[s] = Null
        /\ status[c] = "connected" /\ dataUserId[c] \in roomDb[r].waitingRoom
        /\ OnlyCreatorError(out, s)

C22_FanOutWhateverTheWrite ==
    [][/\ \A s \in Sockets, roomId \in DbRoomIds :
             ChatMessage(s, roomId, Text) /\ checkChatRate(chatLimiter, s, now).ok
             => /\ Len(out') = 1
                /\ out'[1].ev = "chat-message" /\ out'[1].sid = s /\ out'[1].data = Text
                /\ out'[1].to = Roster(roomParticipants, roomId)
                /\ dbOps' = <<PushChat(roomId, Text)>>
       /\ UpdateOneFails \/ UpdateOneDone
             => /\ out' = <<>>
                /\ UNCHANGED <<status, dataRoomId, dataBroadcastId, roomParticipants,
                               broadcastRegistry, chatLimiter, sids, accepted, dataUserId,
                               roomDb, pending>>]_vars

\* The write of a chat message that was fanned out to a room of two has
\* failed.
C22_Witness ==
    /\ dbOps # <<>>
    /\ dbOps[1].op = "push" /\ dbOps[1].settled = "failed"
    /\ Cardinality(Roster(roomParticipants, dbOps[1].roomId)) = 2
    /\ \E s \in Sockets : Has(chatLimiter, s) /\ chatLimiter[s].count >= 1

C24_Rendezvous ==
    [][\A s \in Sockets, b \in Bids :
          JoinBroadcast(s, b)
          => /\ IF ~Has(broadcastRegistry, b)
                THEN out' = <<Emit("broadcast-not-found", Null, b, EmptyMap, "", {s})>>
                ELSE /\ Len(out') = 2
                     /\ out'[1].ev = "viewer-joined" /\ out'[1].sid = s
                     /\ out'[1].to = {broadcastRegistry[b]}
                     /\ out'[2].ev = "broadcast-joined"
                     /\ out'[2].sid = broadcastRegistry[b]
                     /\ out'[2].to = {s}
             /\ UNCHANGED <<broadcastRegistry, roomParticipants, dataRoomId,
                            dataBroadcastId, status, sids>>]_vars

\* C26: every entry b -> c of the broadcast registry has b as the
\* socket.data.broadcastId of c.
C26_EntryIsCurrent ==
    \A b \in DOMAIN broadcastRegistry : dataBroadcastId[broadcastRegistry[b]] = b

\* C27: the disconnect of c removes no entry of the broadcast registry that
\* maps to another connection that is live.
C27_DisconnectRemovesOwn ==
    [][\A c \in Sockets :
          Disconnect(c)
          => \A b \in DOMAIN broadcastRegistry :
                 broadcastRegistry[b] # c /\ status[broadcastRegistry[b]] = "connected"
                 => Has(broadcastRegistry', b)
                    /\ broadcastRegistry'[b] = broadcastRegistry[b]]_vars

\* C25: every handshake is admitted: with a valid token the connection is
\* authenticated and has the token's id as userId; with any other token, or
\* none, it is not authenticated, has no userId and has a username Guest_
\* followed by 6 hex characters.  After every step, a connection has a
\* userId if and only if it is authenticated.
C25_HandshakeAdmits ==
    [][/\ \A s \in Sockets, token \in TokenInputs :
             status[s] = "idle" => ENABLED Handshake(s, token)
       /\ \A s \in Sockets, token \in TokenInputs :
             Handshake(s, token)
             => /\ status'[s] = "connected"
                /\ IF token.kind = "valid"
                   THEN dataAuthenticated'[s] /\ dataUserId'[s] = token.id
                   ELSE /\ ~dataAuthenticated'[s] /\ dataUserId'[s] = Null
                        /\ dataUsername'[s] = [prefix |-> "Guest_", len |-> 6,
                                               alphabet |-> "hex"]
       /\ \A s \in Sockets :
             status'[s] = "connected" => (dataUserId'[s] # Null <=> dataAuthenticated'[s])]_vars

\* A guest and an authenticated connection are both live, the guest in a
\* room.
C25_Witness ==
    \E s, c \in Sockets :
        /\ status[s] = "connected" /\ ~dataAuthenticated[s] /\ dataUserId[s] = Null
        /\ dataUsername[s].prefix = "Guest_" /\ dataRoomId[s] # Null
        /\ status[c] = "connected" /\ dataAuthenticated[c] /\ dataUserId[c] \in Users

\* C28: a toggle-mute, toggle-video, hand-raise, screen-share-start or
\* screen-share-stop of a connection that is not in the roster of the room
\* it names, or with a flag that is no boolean, changes no flag of any
\* participant and sends nothing to anyone.
C28_PresenceRefusedSilently ==
    [][\A s \in Sockets, roomId \in ToInputs :
          LET outsider == roomId = Null \/ s \notin Roster(roomParticipants, roomId)
              refused == /\ out' = <<>>
                         /\ dbOps' = <<>>
                         /\ UNCHANGED <<roomParticipants, status, dataRoomId, sids>>
          IN  /\ \A v \in FlagInputs :
                     /\ ToggleMute(s, roomId, v) \/ ToggleVideo(s, roomId, v)
                           \/ HandRaise(s, roomId, v)
                     /\ outsider \/ ~IsBoolean(v)
                     => refused
              /\ (ScreenShareStart(s, roomId) \/ ScreenShareStop(s, roomId)) /\ outsider
                 => refused]_vars

\* A connection is live outside a room in which a participant has a flag
\* set, after a handler run that has sent nothing.
C28_Witness ==
    \E s, c \in Sockets, r \in DbRoomIds :
        /\ s # c
        /\ status[s] = "connected" /\ s \notin Roster(roomParticipants, r)
        /\ c \in Roster(roomParticipants, r)
        /\ roomParticipants[r][c] # DefaultInfo
        /\ out = <<>>

\* C29: a chat-message that the shape check refuses is not fanned out, not
\* persisted and not answered, and leaves the rate limiter and everything
\* else as it was.
C29_MisshapenChatIgnored ==
    [][\A s \in Sockets, roomId \in ToInputs, m \in MessageInputs :
          LET misshapen == \/ roomId = Null
                           \/ m = Null
                           \/ ~IsString(m)
                           \/ TrimLen(m) < 1 \/ TrimLen(m) > 1000
          IN  ChatMessage(s, roomId, m) /\ misshapen
          => /\ out' = <<>>
             /\ dbOps' = <<>>
             /\ UNCHANGED <<chatLimiter, accepted, status, dataRoomId, dataBroadcastId,
                            roomParticipants, broadcastRegistry, sids, dataUserId,
                            roomDb, pending>>]_vars

\* Two live connections have each had a chat message counted by the
\* limiter, and the last handler run has sent nothing: it was a chat-message
\* that the shape check refused.
C29_Witness ==
    /\ out = <<>> /\ dbOps = <<>>
    /\ \A s \in Sockets :
           /\ status[s] = "connected"
           /\ Has(chatLimiter, s) /\ chatLimiter[s].count >= 1
           /\ lastChat[s] # Never

\* C30: what generateRoomId(length) returns has exactly length characters,
\* each of them one of A-Z, a-z, 0-9, whatever bytes were drawn.
C30_ExactLengthAlphanumeric ==
    gen.pc = "done"
    => /\ Len(gen.result) = gen.length
       /\ \A k \in 1..Len(gen.result) :
              gen.result[k] \in (65..90) \cup (97..122) \cup (48..57)

\* generateRoomId has returned an id of the greatest length after a round
\* in which a byte was discarded.
C30_Witness ==
    /\ gen.pc = "done"
    /\ gen.length = MaxLen
    /\ gen.draws > 1

\* C31: the byte of the first round of generateRoomId(1) gives a character
\* exactly if it is below 248, and the character it gives is the image of
\* exactly 4 of the bytes 0..247, as is each of the 62 characters.
C31_RejectionSampling ==
    gen.length = 1 /\ gen.draws = 1
    => LET b == gen.bytes[1]
           kept == {x \in Bytes : forLoop(<<x>>, 1, <<>>, 1) # <<>>}
           image(c) == {x \in kept : forLoop(<<x>>, 1, <<>>, 1) = <<c>>}
           alphabet == {ALPHANUMERIC(k) : k \in 0..(ALPHABET_LEN - 1)}
       IN  /\ Len(gen.result) = 1 <=> b < 248
           /\ kept = 0..247
           /\ Cardinality(alphabet) = 62
           /\ b < 248 => gen.result[1] \in alphabet /\ Cardinality(image(gen.result[1])) = 4
           /\ \A c \in alphabet : Cardinality(image(c)) = 4

\* generateRoomId(1) has returned the character of byte 247, the last byte
\* that is kept, after byte 248 was discarded in the first round.
C31_Witness ==
    /\ gen.pc = "done" /\ gen.length = 1 /\ gen.draws = 2
    /\ gen.bytes = <<247>>
    /\ gen.result = <<ALPHANUMERIC(61)>>

\* C32: a connection's id is in the roster of at most one room; a join-room
\* for r2 by a connection in r1 takes it out of r1, with user-left to the
\* other participants of r1 once and r1 dropped when nobody stays, and puts
\* it into r2; joining the room it is in leaves it there with the four
\* flags reset.
C32_OneRoomAtATime ==
    /\ [](\A c \in Sockets :
            Cardinality({r \in DOMAIN roomParticipants :
                            c \in DOMAIN roomParticipants[r]}) <= 1)
    /\ [][\A s \in Sockets, r2 \in Names :
             JoinRoom(s, r2)
             => LET r1 == dataRoomId[s]
                IN  /\ r1 # Null /\ r1 # r2
                       => /\ s \notin Roster(roomParticipants', r1)
                          /\ \A p \in Roster(roomParticipants, r1) \ {s} :
                                 LeftCount(s, p, out') = 1
                          /\ Roster(roomParticipants, r1) = {s}
                                 => ~Has(roomParticipants', r1)
                    /\ s \in Roster(roomParticipants', r2)
                    /\ roomParticipants'[r2][s] = DefaultInfo]_vars

\* C33: every connection id in the roster of a room is the id of a
\* connection that is connected: a disconnected one is in no roster.
C33_RosterIsConnected ==
    \A r \in DOMAIN roomParticipants :
        \A c \in DOMAIN roomParticipants[r] : status[c] = "connected"

\* A connection has disconnected from a room in which another one stays,
\* and the one that stays was told.
C33_Witness ==
    \E c, d \in Sockets :
        /\ status[c] = "closed" /\ status[d] = "connected"
        /\ dataRoomId[d] \in DbRoomIds
        /\ Roster(roomParticipants, dataRoomId[d]) = {d}
        /\ \E i \in Named(out, "user-left") : out[i].sid = c /\ d \in out[i].to

\* C34: the keys of the chat limiter are ids of connected connections.
C34_LimiterKeysConnected ==
    \A s \in Sockets : Has(chatLimiter, s) => status[s] = "connected"

\* A connection whose chat message another one has got, so that the limiter
\* had an entry for it, has disconnected, and the other one still has its
\* own entry.
C34_Witness ==
    \E s, d \in Sockets :
        /\ s # d
        /\ status[s] = "closed" /\ ~Has(chatLimiter, s)
        /\ \E i \in 1..Len(trace.inbox[d]) :
               trace.inbox[d][i].from = s /\ trace.inbox[d][i].ev = "chat-message"
        /\ status[d] = "connected" /\ Has(chatLimiter, d)

\* C35: a chat-message or chat-reaction of a connection that is not a
\* participant of the room it names is delivered to no participant of that
\* room.
C35_OutsiderReachesNobody ==
    [][\A s \in Sockets, roomId \in DbRoomIds :
          /\ ChatMessage(s, roomId, Text) \/ ChatReaction(s, roomId, Msg, Thumb)
          /\ s \notin Roster(roomParticipants, roomId)
          => \A i \in Named(out', "chat-message") \cup Named(out', "chat-reaction") :
                 out'[i].to \cap Roster(roomParticipants, roomId) = {}]_vars

\* C36 as stated: each room of the 1:1 server has at most one broadcaster
\* and at most one viewer; a socket is the broadcaster or the viewer of a
\* room only while it is connected with that room and that role in its
\* socket.data; and a join-room for a role that is taken in the room is
\* answered with the error-message of that role and leaves the occupant in
\* place.
C36_RoleTakenRefused ==
    /\ [](\A r \in DOMAIN legacy.rooms, role \in {"broadcaster", "viewer"} :
            /\ Cardinality({s \in Sockets :
                               legacy.roomId[s] = r /\ legacy.role[s] = role}) <= 1
            /\ \A s \in Sockets :
                   legacy.rooms[r][role] = s
                   => /\ legacy.status[s] = "connected"
                      /\ legacy.roomId[s] = r
                      /\ legacy.role[s] = role)
    /\ [][\A s \in Sockets, r \in Names, role \in {"broadcaster", "viewer"},
             peerId \in PeerIdInputs :
             /\ LegacyJoinRoom(s, r, role, peerId)
             /\ Has(legacy.rooms, r) /\ legacy.rooms[r][role] # Null
             => /\ \E i \in Named(legacy'.out, "error-message") :
                       /\ legacy'.out[i].to = {s}
                       /\ legacy'.out[i].msg = "Room already has a " \o role
                /\ Has(legacy'.rooms, r)
                /\ legacy'.rooms[r][role] = legacy.rooms[r][role]]_vars

\* C36, with the role taken by another socket: a socket that sends
\* join-room for the room and role it holds itself leaves and joins anew,
\* without an error-message.
C36_RoleTakenByAnotherRefused ==
    /\ [](\A r \in DOMAIN legacy.rooms, role \in {"broadcaster", "viewer"} :
            /\ Cardinality({s \in Sockets :
                               legacy.roomId[s] = r /\ legacy.role[s] = role}) <= 1
            /\ \A s \in Sockets :
                   legacy.rooms[r][role] = s
                   => /\ legacy.status[s] = "connected"
                      /\ legacy.roomId[s] = r
                      /\ legacy.role[s] = role)
    /\ [][\A s \in Sockets, r \in Names, role \in {"broadcaster", "viewer"},
             peerId \in PeerIdInputs :
             /\ LegacyJoinRoom(s, r, role, peerId)
             /\ Has(legacy.rooms, r) /\ legacy.rooms[r][role] \notin {Null, s}
             => /\ \E i \in Named(legacy'.out, "error-message") :
                       /\ legacy'.out[i].to = {s}
                       /\ legacy'.out[i].msg = "Room already has a " \o role
                /\ Has(legacy'.rooms, r)
                /\ legacy'.rooms[r][role] = legacy.rooms[r][role]]_vars

\* A socket was refused as the broadcaster of a room that has one, and the
\* room has its broadcaster and its viewer as before.
C36_Witness ==
    \E s, b \in Sockets, r \in DOMAIN legacy.rooms :
        /\ s # b
        /\ legacy.rooms[r].broadcaster = b
        /\ legacy.status[s] = "connected" /\ legacy.roomId[s] = Null
        /\ \E i \in Named(legacy.out, "error-message") :
               /\ legacy.out[i].to = {s}
               /\ legacy.out[i].msg = "Room already has a broadcaster"

\* C37: when a peer of a room of the 1:1 server that has both a broadcaster
\* and a viewer leaves it, by disconnect or by join-room for another room,
\* the peer that stays receives peer-disconnected with the id and the role
\* of the one that left exactly once; and no room stays in `rooms` without
\* a broadcaster and without a viewer.
C37_PeerToldOnce ==
    /\ [](\A r \in DOMAIN legacy.rooms : legacy.rooms[r] # NoPeers)
    /\ [][\A s \in Sockets :
             LET r == legacy.roomId[s]
                 full == /\ Has(legacy.rooms, r)
                         /\ legacy.rooms[r].broadcaster # Null
                         /\ legacy.rooms[r].viewer # Null
                 leaves == \/ LegacyDisconnect(s)
                           \/ \E r2 \in Names \ {r}, role \in {"broadcaster", "viewer"},
                                 peerId \in PeerIdInputs :
                                 LegacyJoinRoom(s, r2, role, peerId)
             IN  r # Null /\ full /\ leaves
                 => LET p == getPeerId(legacy, s)
                    IN  Cardinality({i \in Named(legacy'.out, "peer-disconnected") :
                                        /\ legacy'.out[i].sid = s
                                        /\ legacy'.out[i].data = legacy.role[s]
                                        /\ p \in legacy'.out[i].to}) = 1]_vars

\* C38: a join-room of the 1:1 server that is answered with an
\* error-message changes nothing: the rooms, the socket.data and the
\* socket.io rooms of all sockets are as before, and no peer-disconnected
\* is sent.
C38_RefusedJoinChangesNothing ==
    [][\A s \in Sockets, roomId \in RoomIdInputs, role \in RoleInputs,
          peerId \in PeerIdInputs :
          /\ LegacyJoinRoom(s, roomId, role, peerId)
          /\ Named(legacy'.out, "error-message") # {}
          => /\ legacy' = [legacy EXCEPT !.out = legacy'.out]
             /\ Named(legacy'.out, "peer-disconnected") = {}]_vars

\* C39: from a call of disconnect() of usePeerCall until the next startCall
\* or joinCall, the status is "disconnected" and pcRef is null.
C39_DisconnectIsFinal ==
    hook.quiet => hook.status = "disconnected" /\ hook.pcRef = Null

====
